---- MODULE Spec2Model ----
(***************************************************************************)
(* A model of the analytical core of the retirement planner:               *)
(*   - run_client_retirement_simulation  (src/src/retirement_planner_tmp.py)*)
(*   - run_historical_bootstrapping      (src/src/simulation.py)            *)
(*   - generate_efficient_frontier       (src/src/portfolio_analysis.py)    *)
(*   - calculate_max_drawdown and the risk-band classification loop         *)
(*                                       (src/src/risk_profiling.py)        *)
(*                                                                         *)
(* Numbers.  The program computes in IEEE doubles.  The model computes in  *)
(* integers: money in whole units, monthly returns in percent, weights as  *)
(* integer numerators over their sum.  A product or quotient that is not a *)
(* whole number of units is rounded down (\div) where the double would be  *)
(* rounded to 53 bits.                                                     *)
(***************************************************************************)
EXTENDS Integers, Sequences, FiniteSets, TLC

VARIABLES
    pc,                                   \* position of the running function
    \* ---- run_client_retirement_simulation
    client,                               \* the arguments of the call
    model_portfolios_csv,                 \* the file model_portfolios_<term>.csv
    client_printed,                       \* the messages printed so far
    portfolio_weights,                    \* weight numerators, one per asset
    loaded_sim_paths,                     \* asset -> [simulation][month] return (percent)
    s_idx,                                \* 0-based index of the current run
    month_in_horizon,                     \* 0-based index of the next month of the run
    current_balance,
    portfolio_history_this_sim,
    current_annual_contribution_inflated,
    current_annual_withdrawal_inflated,
    final_balances,
    all_portfolio_histories,
    phase,                                \* the cash-flow branch the run took last
    \* ---- run_historical_bootstrapping
    combined_returns_df,                  \* the ReturnMatrix: rows of per-asset returns
    boot_s,                               \* 0-based index of the current simulation
    month_idx,                            \* 0-based index of the next month to draw
    current_sim_returns_for_assets,       \* asset -> returns of the current simulation
    simulated_asset_paths,                \* asset -> list of finished simulations
    num_draws,                            \* calls of np.random.randint so far
    boot_printed,                         \* the errors and warnings printed so far
    \* ---- calculate_max_drawdown
    value_series,                         \* the argument
    max_drawdown,                         \* the value returned: NaN, or a number per mille
    \* ---- define_and_select_model_portfolios_by_term, one term's risk-level loop
    term_name,
    efficient_frontier_df,                \* rows in index order, ascending volatility
    classifier_sim_paths,                 \* loaded_sim_paths of the classifier
    levels_done,                          \* risk levels of term_target_vols already processed
    final_model_portfolios_for_term,      \* risk level -> record (a sequence, levels in order)
    \* ---- generate_efficient_frontier
    mvo_returns_df,                       \* the argument combined_returns_df (percent)
    portfolios_df,                        \* the samples generated so far, in index order
    efficient_frontier,                   \* the frontier returned
    sharpe_zero_divisions,                \* divisions p_return / 0.0 performed so far
    \* ---- define_and_select_model_portfolios_by_term, the loop over the terms
    all_term_results,                     \* the argument: the terms in iteration order
    simulated_path_files,                 \* assets with a file in SIMULATED_PATHS_DIR
    term_idx,                             \* 1-based position of the term being processed
    all_term_model_portfolios,            \* term name -> the term's table of records
    terms_printed,                        \* the error and skip messages printed so far
    \* ---- define_and_select_model_portfolios_by_term, the level assignment
    band_term,                            \* the term whose bands are used
    band_actual_volatility,                    \* volatility of the selected portfolio (1/10000)
    band_actual_max_drawdown,                  \* 1st-percentile max drawdown (per mille)
    band_vol_risk_level,
    band_dd_risk_level

clientVars == <<client, model_portfolios_csv, client_printed, portfolio_weights, loaded_sim_paths, s_idx, month_in_horizon,
                current_balance, portfolio_history_this_sim,
                current_annual_contribution_inflated,
                current_annual_withdrawal_inflated,
                final_balances, all_portfolio_histories, phase>>

bootVars == <<combined_returns_df, boot_s, month_idx, current_sim_returns_for_assets,
              simulated_asset_paths, num_draws, boot_printed>>

drawdownVars == <<value_series, max_drawdown>>

classifyVars == <<term_name, efficient_frontier_df, classifier_sim_paths, levels_done,
                  final_model_portfolios_for_term>>

frontierVars == <<mvo_returns_df, portfolios_df, efficient_frontier, sharpe_zero_divisions>>

termsVars == <<all_term_results, simulated_path_files, term_idx,
               all_term_model_portfolios, terms_printed>>

bandVars == <<band_term, band_actual_volatility, band_actual_max_drawdown, band_vol_risk_level,
              band_dd_risk_level>>

vars == <<pc, clientVars, bootVars, drawdownVars, classifyVars, frontierVars, termsVars,
          bandVars>>

\* what the functions other than the one named leave alone
notClient == <<bootVars, drawdownVars, classifyVars, frontierVars, termsVars, bandVars>>
notBoot == <<clientVars, drawdownVars, classifyVars, frontierVars, termsVars, bandVars>>
notDrawdown == <<clientVars, bootVars, classifyVars, frontierVars, termsVars, bandVars>>
notClassify == <<clientVars, bootVars, drawdownVars, frontierVars, termsVars, bandVars>>
notFrontier == <<clientVars, bootVars, drawdownVars, classifyVars, termsVars, bandVars>>
notTerms == <<clientVars, bootVars, drawdownVars, classifyVars, frontierVars, bandVars>>
notBands == <<clientVars, bootVars, drawdownVars, classifyVars, frontierVars, termsVars>>

(***************************************************************************)
(* Bounds and scaled configuration.                                        *)
(***************************************************************************)
\* config.NUM_SIMULATIONS (10000 in the program)
NUM_SIMULATIONS == 2
\* config.PLANNING_HORIZON_MONTHS (900 in the program)
PLANNING_HORIZON_MONTHS == 4
\* config.NUM_MONTHS_IN_YEAR (12 in the program)
NUM_MONTHS_IN_YEAR == 2

\* the asset universe (11 assets in the program)
asset_names == <<"AGG", "Moneymarket">>
AssetIdx == 1..Len(asset_names)

RECURSIVE SumSeq(_)
SumSeq(q) == IF q = <<>> THEN 0 ELSE Head(q) + SumSeq(Tail(q))

Last(q) == q[Len(q)]

(***************************************************************************)
(* The simulated path set the client simulator loads.  Path (s, m) of      *)
(* every asset is one historical row (see run_historical_bootstrapping).   *)
(***************************************************************************)
\* historical monthly returns in percent, one row per month, one entry per asset
ClientReturnRows == << <<100, 0>>, <<-100, 0>>, <<0, 0>> >>

\* the historical row behind month m (1-based) of a simulated path: the same row
\* every month, or the first two rows in turn
ClientPathPatterns == {"up", "down", "flat", "up_down", "down_up"}

RowOfPattern(pattern, m) ==
    CASE pattern = "up" -> 1
      [] pattern = "down" -> 2
      [] pattern = "flat" -> 3
      [] pattern = "up_down" -> IF m % 2 = 1 THEN 1 ELSE 2
      [] OTHER -> IF m % 2 = 1 THEN 2 ELSE 1

PathSetOf(rows, patterns) ==
    [a \in AssetIdx |->
        [s \in 1..NUM_SIMULATIONS |->
            [m \in 1..PLANNING_HORIZON_MONTHS |-> rows[RowOfPattern(patterns[s], m)][a]]]]

ClientPathSets ==
    { PathSetOf(ClientReturnRows, patterns) :
        patterns \in [1..NUM_SIMULATIONS -> ClientPathPatterns] }

\* weights as loaded by load_model_portfolio_weights: numerators over their sum
ClientWeights == { <<1, 0>>, <<0, 1>>, <<1, 1>> }

\* the file model_portfolios_<term>.csv: absent, or a table from risk level to
\* weights
ModelPortfolioFiles ==
    { [exists |-> FALSE, rows |-> <<>>] }
       \cup { [exists |-> TRUE, rows |-> (1 :> w)] : w \in ClientWeights }
       \cup { [exists |-> TRUE, rows |-> (2 :> <<1, 1>>)] }

ClientProfiles ==
    [ initial_balance : {-500, 0, 1000},
      current_age : {30},
      retirement_age : {30, 31},
      life_expectancy : {31, 32, 33},
      annual_contribution : {0, 1200},
      annual_withdrawal_at_retirement : {1200, 1000 * NUM_MONTHS_IN_YEAR},
      average_annual_inflation : {0, 50},       \* percent
      selected_risk_level : {1} ]

(***************************************************************************)
(* run_client_retirement_simulation                                        *)
(***************************************************************************)
pre_retirement_months == (client.retirement_age - client.current_age) * NUM_MONTHS_IN_YEAR
post_retirement_months == (client.life_expectancy - client.retirement_age) * NUM_MONTHS_IN_YEAR
total_planning_months == pre_retirement_months + post_retirement_months

\* np.sum(monthly_returns_all_assets * portfolio_weights.values), as a numerator
\* over 100 * SumSeq(portfolio_weights)
portfolio_monthly_return(s, m) ==
    SumSeq([a \in AssetIdx |-> loaded_sim_paths[a][s + 1][m + 1] * portfolio_weights[a]])

\* current_balance *= (1 + portfolio_monthly_return)
Compound(balance, s, m) ==
    (balance * (100 * SumSeq(portfolio_weights) + portfolio_monthly_return(s, m)))
        \div (100 * SumSeq(portfolio_weights))

\* x *= (1 + average_annual_inflation)
Inflate(x) == (x * (100 + client.average_annual_inflation)) \div 100

\* an adjustment point at the first month of the run as well
IsAdjustmentPointFromStart(m) == m % NUM_MONTHS_IN_YEAR = 0

\* if month_in_horizon % NUM_MONTHS_IN_YEAR == 0 and month_in_horizon > 0
IsAdjustmentPoint(m) == m % NUM_MONTHS_IN_YEAR = 0 /\ m > 0

ContributionAt(m) ==
    IF IsAdjustmentPoint(m) THEN Inflate(current_annual_contribution_inflated)
                            ELSE current_annual_contribution_inflated
WithdrawalAt(m) ==
    IF IsAdjustmentPoint(m) THEN Inflate(current_annual_withdrawal_inflated)
                            ELSE current_annual_withdrawal_inflated

\* the accumulation branch taken one month too long
InAccumulationOffByOne(m) == m <= pre_retirement_months

\* if month_in_horizon < pre_retirement_months: the accumulation branch
InAccumulation(m) == m < pre_retirement_months

\* the month's cash flow applied before the month's return
CashFlowBeforeCompounding(m) ==
    IF InAccumulation(m)
    THEN Compound(current_balance + (ContributionAt(m) \div NUM_MONTHS_IN_YEAR), s_idx, m)
    ELSE Compound(current_balance - (WithdrawalAt(m) \div NUM_MONTHS_IN_YEAR), s_idx, m)

\* the balance after compounding and the month's cash flow, before the failure check
BalanceAfterCashFlow(m) ==
    IF InAccumulation(m)
    THEN Compound(current_balance, s_idx, m) + (ContributionAt(m) \div NUM_MONTHS_IN_YEAR)
    ELSE Compound(current_balance, s_idx, m) - (WithdrawalAt(m) \div NUM_MONTHS_IN_YEAR)

\* a failure check that records the 0 and goes on with the next month
FailureCheckNoBreak(b) ==
    IF b <= 0 THEN [balance |-> 0, break |-> FALSE] ELSE [balance |-> b, break |-> FALSE]

\* a failure check that ends the run without setting the balance to 0
FailureCheckNoClamp(b) == [balance |-> b, break |-> b <= 0]

\* a failure check that lets a balance of exactly 0 go on
FailureCheckStrict(b) ==
    IF b < 0 THEN [balance |-> 0, break |-> TRUE] ELSE [balance |-> b, break |-> FALSE]

\* if current_balance <= 0: current_balance = 0; append; break
FailureCheck(b) ==
    IF b <= 0 THEN [balance |-> 0, break |-> TRUE] ELSE [balance |-> b, break |-> FALSE]

\* pd.Series(0.0, index=asset_names)
ZeroWeights == [a \in AssetIdx |-> 0]

\* a loader that answers a failure with equal weights and no message
LoadEqualWeightsOnFailure(file, risk_level) ==
    IF file.exists /\ risk_level \in DOMAIN file.rows
    THEN [weights |-> file.rows[risk_level], printed |-> {}]
    ELSE [weights |-> [a \in AssetIdx |-> 1], printed |-> {}]

\* load_model_portfolio_weights: the weights returned and the message printed
load_model_portfolio_weights(file, risk_level) ==
    IF ~file.exists
    THEN [weights |-> ZeroWeights,
          printed |-> {"Error: Model portfolios file not found"}]
    ELSE IF risk_level \notin DOMAIN file.rows
    THEN [weights |-> ZeroWeights,
          printed |-> {"Error loading model portfolio: Risk level not found"}]
    ELSE [weights |-> file.rows[risk_level], printed |-> {}]

ClientInit ==
    /\ pc = "load_weights"
    /\ client \in ClientProfiles
    /\ model_portfolios_csv \in ModelPortfolioFiles
    /\ client_printed = {}
    /\ portfolio_weights = <<>>
    /\ loaded_sim_paths \in ClientPathSets
    /\ s_idx = 0
    /\ month_in_horizon = 0
    /\ current_balance = 0
    /\ portfolio_history_this_sim = <<>>
    /\ current_annual_contribution_inflated = 0
    /\ current_annual_withdrawal_inflated = 0
    /\ final_balances = <<>>
    /\ all_portfolio_histories = <<>>
    /\ phase = "None"

ClientIdle ==
    /\ client = [initial_balance |-> 0]
    /\ model_portfolios_csv = [exists |-> FALSE, rows |-> <<>>]
    /\ client_printed = {}
    /\ portfolio_weights = <<>>
    /\ loaded_sim_paths = <<>>
    /\ s_idx = 0
    /\ month_in_horizon = 0
    /\ current_balance = 0
    /\ portfolio_history_this_sim = <<>>
    /\ current_annual_contribution_inflated = 0
    /\ current_annual_withdrawal_inflated = 0
    /\ final_balances = <<>>
    /\ all_portfolio_histories = <<>>
    /\ phase = "None"

\* lines 72-77: the weights are loaded; if they sum to 0 the function prints an
\* error and returns [], []
LoadWeights ==
    /\ pc = "load_weights"
    /\ UNCHANGED notClient
    /\ LET loaded == load_model_portfolio_weights(model_portfolios_csv,
                                                  client.selected_risk_level)
       IN /\ portfolio_weights' = loaded.weights
          /\ IF SumSeq(loaded.weights) = 0
             THEN /\ pc' = "returned_no_weights"
                  /\ client_printed' =
                        client_printed \cup loaded.printed
                           \cup {"Error: Could not load valid portfolio weights"}
             ELSE /\ pc' = "run_start"
                  /\ client_printed' = client_printed \cup loaded.printed
    /\ UNCHANGED <<client, model_portfolios_csv, loaded_sim_paths, s_idx,
                   month_in_horizon, current_balance, portfolio_history_this_sim,
                   current_annual_contribution_inflated,
                   current_annual_withdrawal_inflated, final_balances,
                   all_portfolio_histories, phase>>

\* a per-run state whose inflated amounts are set for the first run only
CarriedOverRunState ==
    [ current_balance |-> client.initial_balance,
      current_annual_contribution_inflated |->
          IF s_idx = 0 THEN client.annual_contribution
                       ELSE current_annual_contribution_inflated,
      current_annual_withdrawal_inflated |->
          IF s_idx = 0 THEN client.annual_withdrawal_at_retirement
                       ELSE current_annual_withdrawal_inflated ]

\* lines 104-108: the state a run starts from
InitialRunState ==
    [ current_balance |-> client.initial_balance,
      current_annual_contribution_inflated |-> client.annual_contribution,
      current_annual_withdrawal_inflated |-> client.annual_withdrawal_at_retirement ]

\* for s_idx in range(NUM_SIMULATIONS): the per-run initialisation
StartRun ==
    /\ pc = "run_start"
    /\ UNCHANGED notClient
    /\ s_idx < NUM_SIMULATIONS
    /\ current_balance' = InitialRunState.current_balance
    /\ portfolio_history_this_sim' = <<InitialRunState.current_balance>>
    /\ current_annual_contribution_inflated' =
          InitialRunState.current_annual_contribution_inflated
    /\ current_annual_withdrawal_inflated' =
          InitialRunState.current_annual_withdrawal_inflated
    /\ month_in_horizon' = 0
    /\ phase' = "None"
    /\ pc' = "month_loop"
    /\ UNCHANGED <<client, model_portfolios_csv, client_printed, portfolio_weights,
                   loaded_sim_paths, s_idx,
                   final_balances, all_portfolio_histories>>

\* the test that stops a run one month after the last simulated month
BeyondSimulatedHorizonLate(sim_month_idx) == sim_month_idx > PLANNING_HORIZON_MONTHS

\* if sim_month_idx >= config.PLANNING_HORIZON_MONTHS
BeyondSimulatedHorizon(sim_month_idx) == sim_month_idx >= PLANNING_HORIZON_MONTHS

\* loaded_sim_paths[asset_name][s_idx, sim_month_idx] is inside the arrays
PathIndexInBounds(s, sim_month_idx) ==
    \A a \in AssetIdx : sim_month_idx < Len(loaded_sim_paths[a][s + 1])

\* one iteration of the month loop that reads the simulated path; a read outside
\* the arrays raises IndexError
MonthStep ==
    /\ pc = "month_loop"
    /\ UNCHANGED notClient
    /\ month_in_horizon < total_planning_months
    /\ ~BeyondSimulatedHorizon(month_in_horizon)
    /\ IF PathIndexInBounds(s_idx, month_in_horizon)
       THEN /\ current_annual_contribution_inflated' = ContributionAt(month_in_horizon)
            /\ current_annual_withdrawal_inflated' = WithdrawalAt(month_in_horizon)
            /\ LET checked == FailureCheck(BalanceAfterCashFlow(month_in_horizon))
               IN /\ current_balance' = checked.balance
                  /\ portfolio_history_this_sim' =
                         Append(portfolio_history_this_sim, checked.balance)
                  /\ phase' = IF checked.balance = 0 THEN "Ruined"
                              ELSE IF InAccumulation(month_in_horizon) THEN "Accumulating"
                              ELSE "Decumulating"
                  /\ IF checked.break
                     THEN pc' = "run_end" /\ UNCHANGED month_in_horizon
                     ELSE pc' = "month_loop" /\ month_in_horizon' = month_in_horizon + 1
       ELSE /\ pc' = "raised_IndexError"
            /\ UNCHANGED <<month_in_horizon, current_balance, portfolio_history_this_sim,
                           current_annual_contribution_inflated,
                           current_annual_withdrawal_inflated, phase>>
    /\ UNCHANGED <<client, model_portfolios_csv, client_printed, portfolio_weights,
                   loaded_sim_paths, s_idx,
                   final_balances, all_portfolio_histories>>

\* the iteration whose month lies beyond the simulated horizon: break
HorizonBreak ==
    /\ pc = "month_loop"
    /\ UNCHANGED notClient
    /\ month_in_horizon < total_planning_months
    /\ BeyondSimulatedHorizon(month_in_horizon)
    /\ pc' = "run_end"
    /\ UNCHANGED clientVars

\* range(total_planning_months) is exhausted
LoopExhausted ==
    /\ pc = "month_loop"
    /\ UNCHANGED notClient
    /\ month_in_horizon >= total_planning_months
    /\ pc' = "run_end"
    /\ UNCHANGED clientVars

\* a run's results with the history cut to the months after the start
RunResultsWithoutStart ==
    [ final_balance |-> current_balance,
      history |-> Tail(portfolio_history_this_sim) ]

\* what a run hands over: its last balance and its history
RunResults ==
    [ final_balance |-> current_balance,
      history |-> portfolio_history_this_sim ]

\* final_balances.append(...); all_portfolio_histories.append(...); next run
EndRun ==
    /\ pc = "run_end"
    /\ UNCHANGED notClient
    /\ final_balances' = Append(final_balances, RunResults.final_balance)
    /\ all_portfolio_histories' = Append(all_portfolio_histories, RunResults.history)
    /\ s_idx' = s_idx + 1
    /\ pc' = "run_start"
    /\ UNCHANGED <<client, model_portfolios_csv, client_printed, portfolio_weights,
                   loaded_sim_paths, month_in_horizon,
                   current_balance, portfolio_history_this_sim,
                   current_annual_contribution_inflated,
                   current_annual_withdrawal_inflated, phase>>

\* print("--- Retirement Simulation Complete ---");
\* return final_balances, all_portfolio_histories
ReturnResults ==
    /\ pc = "run_start"
    /\ UNCHANGED notClient
    /\ s_idx >= NUM_SIMULATIONS
    /\ pc' = "returned"
    /\ client_printed' = client_printed \cup {"--- Retirement Simulation Complete ---"}
    /\ UNCHANGED <<client, model_portfolios_csv, portfolio_weights, loaded_sim_paths,
                   s_idx, month_in_horizon, current_balance,
                   portfolio_history_this_sim, current_annual_contribution_inflated,
                   current_annual_withdrawal_inflated, final_balances,
                   all_portfolio_histories, phase>>

ClientNext ==
    \/ LoadWeights
    \/ StartRun
    \/ MonthStep
    \/ HorizonBreak
    \/ LoopExhausted
    \/ EndRun
    \/ ReturnResults

(***************************************************************************)
(* run_historical_bootstrapping                                            *)
(***************************************************************************)
\* the ReturnMatrix arguments of the model: no row, one row, two rows, and six
\* equal rows (more rows than the horizon has months); returns in percent, one
\* entry per asset
ReturnMatrices ==
    { <<>>,
      << <<1, 1>> >>,
      << <<1, -1>>, <<0, 2>> >>,
      << <<1, 0>>, <<1, -1>> >>,
      << <<0, 1>>, <<1, 0>> >>,
      << <<2, 2>>, <<2, 2>> >>,
      << <<3, -3>>, <<3, -3>>, <<3, -3>>, <<3, -3>>, <<3, -3>>, <<3, -3>> >> }

num_historical_months == Len(combined_returns_df)

EmptyPaths == [a \in AssetIdx |-> <<>>]

\* the value appended to asset a's path for a draw, taken from another row
ReturnValOtherRow(random_index, a) ==
    combined_returns_df[((random_index + a) % num_historical_months) + 1][a]

\* the value appended to asset a's path for a draw, taken from another column
ReturnValOtherColumn(random_index, a) ==
    combined_returns_df[random_index + 1][(a % Len(asset_names)) + 1]

\* combined_returns_df.iloc[random_index] and its item of asset a
ReturnVal(random_index, a) == combined_returns_df[random_index + 1][a]

\* a path that stops when every historical month has been used once
MonthsPerPathWithoutReuse ==
    IF num_historical_months < PLANNING_HORIZON_MONTHS
    THEN num_historical_months ELSE PLANNING_HORIZON_MONTHS

\* for month_idx in range(config.PLANNING_HORIZON_MONTHS)
MonthsPerPath == PLANNING_HORIZON_MONTHS

BootIdle ==
    /\ combined_returns_df = <<>>
    /\ boot_s = 0
    /\ month_idx = 0
    /\ current_sim_returns_for_assets = EmptyPaths
    /\ simulated_asset_paths = EmptyPaths
    /\ num_draws = 0
    /\ boot_printed = {}

BootInit ==
    /\ pc = "boot_called"
    /\ combined_returns_df \in ReturnMatrices
    /\ boot_s = 0
    /\ month_idx = 0
    /\ current_sim_returns_for_assets = EmptyPaths
    /\ simulated_asset_paths = EmptyPaths
    /\ num_draws = 0
    /\ boot_printed = {}

\* if num_historical_months == 0: return
BootNoData ==
    /\ pc = "boot_called"
    /\ UNCHANGED notBoot
    /\ num_historical_months = 0
    /\ pc' = "boot_returned_no_data"
    /\ boot_printed' =
          boot_printed \cup {"Error: No historical data available for bootstrapping"}
    /\ UNCHANGED <<combined_returns_df, boot_s, month_idx,
                   current_sim_returns_for_assets, simulated_asset_paths, num_draws>>

\* the warning for num_historical_months < PLANNING_HORIZON_MONTHS is printed and
\* the function goes on; simulated_asset_paths = {col: [] ...}
BootStart ==
    /\ pc = "boot_called"
    /\ UNCHANGED notBoot
    /\ num_historical_months # 0
    /\ boot_printed' =
          IF num_historical_months < PLANNING_HORIZON_MONTHS
          THEN boot_printed
                  \cup {"Warning: Number of historical months is less than the planning horizon"}
          ELSE boot_printed
    /\ simulated_asset_paths' = EmptyPaths
    /\ pc' = "boot_sim_start"
    /\ UNCHANGED <<combined_returns_df, boot_s, month_idx,
                   current_sim_returns_for_assets, num_draws>>

\* for s in range(NUM_SIMULATIONS): current_sim_returns_for_assets = {col: [] ...}
BootSimStart ==
    /\ pc = "boot_sim_start"
    /\ UNCHANGED notBoot
    /\ boot_s < NUM_SIMULATIONS
    /\ current_sim_returns_for_assets' = EmptyPaths
    /\ month_idx' = 0
    /\ pc' = "boot_month_loop"
    /\ UNCHANGED <<combined_returns_df, boot_s, simulated_asset_paths, num_draws,
                   boot_printed>>

\* one month: one random index, the row's value appended for every asset
DrawMonth ==
    /\ pc = "boot_month_loop"
    /\ UNCHANGED notBoot
    /\ month_idx < MonthsPerPath
    /\ \E random_index \in 0..(num_historical_months - 1) :
          current_sim_returns_for_assets' =
              [a \in AssetIdx |->
                  Append(current_sim_returns_for_assets[a], ReturnVal(random_index, a))]
    /\ num_draws' = num_draws + 1
    /\ month_idx' = month_idx + 1
    /\ UNCHANGED <<pc, combined_returns_df, boot_s, simulated_asset_paths, boot_printed>>

\* for asset_name in asset_names: simulated_asset_paths[asset_name].append(...)
BootSimEnd ==
    /\ pc = "boot_month_loop"
    /\ UNCHANGED notBoot
    /\ month_idx >= MonthsPerPath
    /\ simulated_asset_paths' =
          [a \in AssetIdx |->
              Append(simulated_asset_paths[a], current_sim_returns_for_assets[a])]
    /\ boot_s' = boot_s + 1
    /\ pc' = "boot_sim_start"
    /\ UNCHANGED <<combined_returns_df, month_idx, current_sim_returns_for_assets,
                   num_draws, boot_printed>>

\* np.save of np.array(paths) for every asset
BootSave ==
    /\ pc = "boot_sim_start"
    /\ UNCHANGED notBoot
    /\ boot_s >= NUM_SIMULATIONS
    /\ pc' = "boot_saved"
    /\ UNCHANGED bootVars

BootNext ==
    \/ BootNoData
    \/ BootStart
    \/ BootSimStart
    \/ DrawMonth
    \/ BootSimEnd
    \/ BootSave


(***************************************************************************)
(* calculate_max_drawdown                                                  *)
(*                                                                         *)
(* Values are whole numbers >= 0; a drawdown is in per mille, rounded down.*)
(* Where the running peak is 0 the quotient is 0/0 = NaN, which min()      *)
(* skips; a series of NaN only has the minimum NaN.                        *)
(***************************************************************************)
\* the longest value series of the model
MaxSeriesLen == 3

\* the values of a series of the model
SeriesValues == 0..3

ValueSeriesInputs == UNION { [1..n -> SeriesValues] : n \in 1..MaxSeriesLen }

\* a double: a number, NaN, +inf or -inf
NaN == [kind |-> "nan", value |-> 0]
Number(x) == [kind |-> "number", value |-> x]
PlusInf == [kind |-> "inf", value |-> 0]
MinusInf == [kind |-> "-inf", value |-> 0]
IsNumber(d) == d.kind = "number"

MaxOf(S) == CHOOSE x \in S : \A y \in S : y <= x
MinOf(S) == CHOOSE x \in S : \A y \in S : x <= y

\* the peak taken over the whole series
WholeSeriesMax(series, t) == MaxOf({ series[i] : i \in 1..Len(series) })

\* value_series.expanding(min_periods=1).max() at position t
ExpandingMax(series, t) == MaxOf({ series[i] : i \in 1..t })

\* (value_series / peak_value) - 1.0 at position t, per mille
DrawdownAt(series, t) == ((series[t] * 1000) \div ExpandingMax(series, t)) - 1000

\* drawdown.min(), NaN entries skipped
calculate_max_drawdown(series) ==
    LET defined == { t \in 1..Len(series) : ExpandingMax(series, t) # 0 }
    IN IF defined = {} THEN NaN
       ELSE Number(MinOf({ DrawdownAt(series, t) : t \in defined }))

ClassifyIdle ==
    /\ term_name = "none"
    /\ efficient_frontier_df = <<>>
    /\ classifier_sim_paths = <<>>
    /\ levels_done = 0
    /\ final_model_portfolios_for_term = <<>>

DrawdownIdle ==
    /\ value_series = <<>>
    /\ max_drawdown = NaN

DrawdownInit ==
    /\ pc = "drawdown_called"
    /\ value_series \in ValueSeriesInputs
    /\ max_drawdown = NaN

\* the call and its return
ReturnDrawdown ==
    /\ pc = "drawdown_called"
    /\ UNCHANGED notDrawdown
    /\ max_drawdown' = calculate_max_drawdown(value_series)
    /\ pc' = "drawdown_returned"
    /\ UNCHANGED value_series

DrawdownNext == ReturnDrawdown

(***************************************************************************)
(* define_and_select_model_portfolios_by_term: the risk-level loop of one  *)
(* term.  Volatilities are in 1/10000, drawdowns in per mille.  The loop   *)
(* is entered with term_target_vols the term's table of                    *)
(* TARGET_VOLATILITIES_FOR_RISK_LEVELS_BY_TERM.                            *)
(***************************************************************************)
Band(lo, hi, dd) == [vol_min |-> lo, vol_max |-> hi, dd_max |-> dd]

RISK_BAND_DEFINITIONS_BY_TERM ==
    "5_year" :> << Band(1095, 1177, -70), Band(1177, 1259, -90), Band(1259, 1341, -110),
                   Band(1341, 1423, -135), Band(1423, 1505, -160), Band(1505, 1587, -185),
                   Band(1587, 1669, -215), Band(1669, 1751, -250), Band(1751, 1833, -300),
                   Band(1833, 1937, -1000) >>
    @@ "10_year" :> << Band(991, 1074, -70), Band(1074, 1157, -90), Band(1157, 1240, -110),
                   Band(1240, 1323, -135), Band(1323, 1406, -160), Band(1406, 1489, -185),
                   Band(1489, 1572, -215), Band(1572, 1655, -250), Band(1655, 1738, -300),
                   Band(1738, 1843, -1000) >>
    @@ "15_year" :> << Band(952, 1039, -70), Band(1039, 1126, -90), Band(1126, 1213, -110),
                   Band(1213, 1300, -135), Band(1300, 1387, -160), Band(1387, 1474, -185),
                   Band(1474, 1561, -215), Band(1561, 1648, -250), Band(1648, 1735, -300),
                   Band(1735, 1845, -1000) >>
    @@ "21_plus_year" :> << Band(830, 926, -70), Band(926, 1022, -90), Band(1022, 1118, -110),
                   Band(1118, 1214, -135), Band(1214, 1310, -160), Band(1310, 1406, -185),
                   Band(1406, 1502, -215), Band(1502, 1598, -250), Band(1598, 1694, -300),
                   Band(1694, 1808, -1000) >>

TARGET_VOLATILITIES_FOR_RISK_LEVELS_BY_TERM ==
    [ t \in {"5_year", "10_year", "15_year", "21_plus_year"} |->
        << 400, 600, 700, 800, 800, 900, 1000, 1100, 1200, 1300 >> ]

TermNames == DOMAIN RISK_BAND_DEFINITIONS_BY_TERM

term_risk_bands == RISK_BAND_DEFINITIONS_BY_TERM[term_name]
term_target_vols == TARGET_VOLATILITIES_FOR_RISK_LEVELS_BY_TERM[term_name]

\* sorted(term_target_vols.keys())
RiskLevels == 1..Len(term_target_vols)

\* rows an efficient frontier of the model is made of: volatility, return
\* (1/10000) and weight numerators
FrontierPool ==
    << [Volatility |-> 500, Return |-> 300, weights |-> <<1, 0>>],
       [Volatility |-> 1000, Return |-> 500, weights |-> <<0, 1>>],
       [Volatility |-> 1150, Return |-> 600, weights |-> <<1, 1>>],
       [Volatility |-> 1400, Return |-> 650, weights |-> <<0, 1>>],
       [Volatility |-> 1950, Return |-> 900, weights |-> <<1, 3>>] >>

\* the rows of the pool at the positions of a set, in ascending volatility
RECURSIVE PoolRows(_, _)
PoolRows(positions, from) ==
    IF from > Len(FrontierPool) THEN <<>>
    ELSE IF from \in positions
         THEN <<FrontierPool[from]>> \o PoolRows(positions, from + 1)
         ELSE PoolRows(positions, from + 1)

\* the most rows of a frontier of the model
MaxFrontierRows == 3

FrontierInputs ==
    { PoolRows(positions, 1) :
        positions \in { ps \in SUBSET (1..Len(FrontierPool)) :
                           ps # {} /\ Cardinality(ps) <= MaxFrontierRows } }

\* historical rows behind the simulated paths the classifier loads (percent)
ClassifierReturnRows == << <<10, 0>>, <<-30, 0>> >>

\* the patterns over the two rows
ClassifierPathPatterns == {"up", "down", "up_down", "down_up"}

ClassifierPathSets ==
    { PathSetOf(ClassifierReturnRows, patterns) :
        patterns \in [1..NUM_SIMULATIONS -> ClassifierPathPatterns] }

\* what load_simulated_paths returns when only the files of some assets exist:
\* the dictionary holds the assets that were found
LoadedPathSets ==
    ClassifierPathSets
    \cup { [a \in found |-> paths[a]] :
              paths \in ClassifierPathSets, found \in (SUBSET AssetIdx) \ {AssetIdx} }

\* loaded_sim_paths[asset_names[0]].shape
num_simulations == Len(classifier_sim_paths[1])
planning_horizon_months == Len(classifier_sim_paths[1][1])

Abs(x) == IF x < 0 THEN -x ELSE x

\* the first row whose distance to the target is greatest
FarthestIdx(frontier, target_vol) ==
    MinOf({ i \in 1..Len(frontier) :
              \A j \in 1..Len(frontier) :
                 Abs(frontier[i].Volatility - target_vol)
                    >= Abs(frontier[j].Volatility - target_vol) })

\* the last row whose distance to the target is least
LastNearestIdx(frontier, target_vol) ==
    MaxOf({ i \in 1..Len(frontier) :
              \A j \in 1..Len(frontier) :
                 Abs(frontier[i].Volatility - target_vol)
                    <= Abs(frontier[j].Volatility - target_vol) })

\* (efficient_frontier_df['Volatility'] - target_vol).abs().idxmin(): the first
\* row whose distance to the target is least
NearestIdx(frontier, target_vol) ==
    MinOf({ i \in 1..Len(frontier) :
              \A j \in 1..Len(frontier) :
                 Abs(frontier[i].Volatility - target_vol)
                    <= Abs(frontier[j].Volatility - target_vol) })

\* initial_value = 1.0, in 1/100000
initial_value == 100000

\* np.sum(monthly_returns_all_assets * portfolio_weights), as a numerator over
\* 100 * SumSeq(weights)
\* a missing asset read as a return of 0
MonthlyReturnsZeroFilled(sim_idx, m) ==
    [raised |-> "none",
     values |-> [a \in AssetIdx |->
                   IF a \in DOMAIN classifier_sim_paths
                   THEN classifier_sim_paths[a][sim_idx + 1][m + 1]
                   ELSE 0]]

\* monthly_returns_all_assets: loaded_sim_paths[asset_name][sim_idx, month_idx]
\* for every asset of asset_names; an asset that is not in the dictionary is
\* a KeyError
monthly_returns_all_assets(sim_idx, m) ==
    IF \A a \in AssetIdx : a \in DOMAIN classifier_sim_paths
    THEN [raised |-> "none",
          values |-> [a \in AssetIdx |-> classifier_sim_paths[a][sim_idx + 1][m + 1]]]
    ELSE [raised |-> "KeyError", values |-> <<>>]

ClassifierMonthlyReturn(weights, sim_idx, m) ==
    SumSeq([a \in AssetIdx |->
              monthly_returns_all_assets(sim_idx, m).values[a] * weights[a]])

\* a month of a simulation of the level's loops raises
DrawdownLoopRaises ==
    \E sim_idx \in 0..(num_simulations - 1) :
       \E m \in 0..(planning_horizon_months - 1) :
          monthly_returns_all_assets(sim_idx, m).raised # "none"

\* portfolio_values after the first n months of simulation sim_idx
RECURSIVE PortfolioValues(_, _, _)
PortfolioValues(weights, sim_idx, n) ==
    IF n = 0 THEN <<initial_value>>
    ELSE LET before == PortfolioValues(weights, sim_idx, n - 1)
         IN Append(before,
                   (Last(before) * (100 * SumSeq(weights)
                                      + ClassifierMonthlyReturn(weights, sim_idx, n - 1)))
                       \div (100 * SumSeq(weights)))

\* max_drawdowns_for_this_portfolio_sims
MaxDrawdownsOfSims(weights) ==
    [ sim \in 1..num_simulations |->
        calculate_max_drawdown(
            PortfolioValues(weights, sim - 1, planning_horizon_months)).value ]

\* q sorted ascending
RECURSIVE SortAsc(_)
SortAsc(q) ==
    IF q = <<>> THEN <<>>
    ELSE LET least == MinOf({ q[i] : i \in 1..Len(q) })
             at == MinOf({ i \in 1..Len(q) : q[i] = least })
         IN <<least>> \o SortAsc(SubSeq(q, 1, at - 1) \o SubSeq(q, at + 1, Len(q)))

\* np.percentile(q, 1): linear interpolation between order statistics
Percentile1(q) ==
    LET sorted == SortAsc(q)
        lower == (Len(q) - 1) \div 100
        frac == (Len(q) - 1) % 100
    IN IF frac = 0 THEN sorted[lower + 1]
       ELSE sorted[lower + 1] + ((frac * (sorted[lower + 2] - sorted[lower + 1])) \div 100)

\* the band loop without the fallback to level 10
VolRiskLevelNoCeiling(bands, actual_volatility) ==
    LET inside == { r \in 1..Len(bands) :
                      actual_volatility >= bands[r].vol_min
                      /\ actual_volatility < bands[r].vol_max }
    IN IF inside # {} THEN MinOf(inside) ELSE 1

\* bands that include their upper edge
VolRiskLevelClosedBands(bands, actual_volatility) ==
    LET inside == { r \in 1..Len(bands) :
                      actual_volatility >= bands[r].vol_min
                      /\ actual_volatility <= bands[r].vol_max }
    IN IF inside # {} THEN MinOf(inside)
       ELSE IF actual_volatility >= bands[10].vol_min THEN 10
       ELSE 1

\* the band loop over term_risk_bands.items(), then the two fallbacks
VolRiskLevel(bands, actual_volatility) ==
    LET inside == { r \in 1..Len(bands) :
                      actual_volatility >= bands[r].vol_min
                      /\ actual_volatility < bands[r].vol_max }
    IN IF inside # {} THEN MinOf(inside)
       ELSE IF actual_volatility >= bands[10].vol_min THEN 10
       ELSE 1

\* the bands scanned from level 1 upwards
DDRiskLevelAscendingScan(bands, actual_max_drawdown) ==
    LET matching == { r \in 1..Len(bands) : actual_max_drawdown <= bands[r].dd_max }
    IN IF matching # {} THEN MinOf(matching) ELSE 1

\* the loop over sorted(term_risk_bands.keys(), reverse=True), then the fallback
DDRiskLevel(bands, actual_max_drawdown) ==
    LET matching == { r \in 1..Len(bands) : actual_max_drawdown <= bands[r].dd_max }
    IN IF matching # {} THEN MaxOf(matching) ELSE 1

\* the lower of the two levels
LowestRiskWins(vol_risk_level, dd_risk_level) ==
    IF vol_risk_level <= dd_risk_level THEN vol_risk_level ELSE dd_risk_level

\* final_assigned_risk_level = max(vol_risk_level, dd_risk_level)
FinalRiskLevel(vol_risk_level, dd_risk_level) ==
    IF vol_risk_level >= dd_risk_level THEN vol_risk_level ELSE dd_risk_level

\* portfolio_data_dict of one risk level
PortfolioDataDict(risk_level) ==
    LET target_vol == term_target_vols[risk_level]
        selected_portfolio_mvo ==
            efficient_frontier_df[NearestIdx(efficient_frontier_df, target_vol)]
        simulated_1st_percentile_max_drawdown ==
            Percentile1(MaxDrawdownsOfSims(selected_portfolio_mvo.weights))
        vol_risk_level == VolRiskLevel(term_risk_bands, selected_portfolio_mvo.Volatility)
        dd_risk_level == DDRiskLevel(term_risk_bands, simulated_1st_percentile_max_drawdown)
    IN [ Target_Risk_Level |-> risk_level,
         Volatility |-> selected_portfolio_mvo.Volatility,
         Return |-> selected_portfolio_mvo.Return,
         weights |-> selected_portfolio_mvo.weights,
         Simulated_1st_Percentile_Max_Drawdown |-> simulated_1st_percentile_max_drawdown,
         Vol_Risk_Level_Assigned |-> vol_risk_level,
         DD_Risk_Level_Assigned |-> dd_risk_level,
         Final_Assigned_Risk_Level |-> FinalRiskLevel(vol_risk_level, dd_risk_level) ]

ClassifyInit ==
    /\ pc = "paths_loaded"
    /\ term_name \in TermNames
    /\ efficient_frontier_df \in FrontierInputs
    /\ classifier_sim_paths \in LoadedPathSets
    /\ levels_done = 0
    /\ final_model_portfolios_for_term = <<>>

\* if not loaded_sim_paths: continue; otherwise the shape of the first
\* asset's paths is read
ReadPathShape ==
    /\ pc = "paths_loaded"
    /\ UNCHANGED notClassify
    /\ pc' = IF DOMAIN classifier_sim_paths = {}
             THEN "term_skipped_paths_not_loaded"
             ELSE IF 1 \notin DOMAIN classifier_sim_paths
                  THEN "raised_KeyError"
                  ELSE "risk_level_loop"
    /\ UNCHANGED classifyVars

\* one iteration of for risk_level in sorted(term_target_vols.keys())
ClassifyLevel ==
    /\ pc = "risk_level_loop"
    /\ UNCHANGED notClassify
    /\ levels_done < Len(term_target_vols)
    /\ IF DrawdownLoopRaises
       THEN /\ pc' = "raised_KeyError"
            /\ UNCHANGED <<final_model_portfolios_for_term, levels_done>>
       ELSE /\ final_model_portfolios_for_term' =
                  Append(final_model_portfolios_for_term,
                         PortfolioDataDict(levels_done + 1))
            /\ levels_done' = levels_done + 1
            /\ pc' = pc
    /\ UNCHANGED <<term_name, efficient_frontier_df, classifier_sim_paths>>

\* the term's table is built from the records and saved
SaveTermTable ==
    /\ pc = "risk_level_loop"
    /\ UNCHANGED notClassify
    /\ levels_done >= Len(term_target_vols)
    /\ pc' = "term_saved"
    /\ UNCHANGED classifyVars

ClassifyNext ==
    \/ ReadPathShape
    \/ ClassifyLevel
    \/ SaveTermTable

(***************************************************************************)
(* generate_efficient_frontier                                             *)
(*                                                                         *)
(* Historical returns are in percent; expected returns and volatilities    *)
(* are in 1/10000, Sharpe ratios in per mille.  A draw of                  *)
(* np.random.random is u / DrawLevels with u in 0..DrawLevels-1; the       *)
(* normalised weights are kept as the numerators u over their sum, and a   *)
(* sum of 0 makes every weight 0/0 = NaN.                                  *)
(***************************************************************************)
\* config.NUM_RANDOM_PORTFOLIOS_MVO (50000 in the program)
NUM_RANDOM_PORTFOLIOS_MVO == 3

\* the number of values a draw of np.random.random takes in the model
DrawLevels == 2

\* len(volatility_bins): np.linspace(min, max, 100)
NumBinEdges == 100

\* the ReturnMatrix arguments: one month; one asset constant; every asset
\* constant; two varying assets
MvoReturnMatrices ==
    { << <<5, 1>> >>,
      << <<5, 1>>, <<-3, 1>> >>,
      << <<1, 1>>, <<1, 1>> >>,
      << <<4, -2>>, <<-2, 2>> >>,
      << <<-1, 0>>, <<-1, 0>> >>,
      << <<2, -3>>, <<0, 3>> >>,
      << <<5>>, <<-3>> >>,
      << >> }

\* num_assets = len(combined_returns_df.columns); a matrix without rows
\* keeps its columns
num_assets(df) == IF Len(df) = 0 THEN Len(asset_names) ELSE Len(df[1])

\* the outcomes of np.random.random(num_assets), as numerators over DrawLevels
RandomDraws(df) == [1..num_assets(df) -> 0..(DrawLevels - 1)]

\* combined_returns_df[a].sum()
ColumnSum(df, a) == SumSeq([k \in 1..Len(df) |-> df[k][a]])

\* (a / b) ** n, in 1/10000
RECURSIVE Power(_, _, _)
Power(a, b, n) == IF n = 0 THEN 10000 ELSE (Power(a, b, n - 1) * a) \div b

\* expected_returns_annualized of asset a, in 1/10000
expected_returns_annualized(df, a) ==
    Power(100 * Len(df) + ColumnSum(df, a), 100 * Len(df), NUM_MONTHS_IN_YEAR) - 10000

\* covariance_matrix_annualized[i][j] as a numerator over
\* Len(df)^2 * (Len(df) - 1), in percent^2
covariance_matrix_annualized(df, i, j) ==
    NUM_MONTHS_IN_YEAR *
       SumSeq([k \in 1..Len(df) |->
                 (Len(df) * df[k][i] - ColumnSum(df, i))
                    * (Len(df) * df[k][j] - ColumnSum(df, j))])

\* the largest r in lo..hi with r * r <= n
RECURSIVE SqrtBetween(_, _, _)
SqrtBetween(n, lo, hi) ==
    IF lo = hi THEN lo
    ELSE LET mid == (lo + hi + 1) \div 2
         IN IF mid * mid <= n THEN SqrtBetween(n, mid, hi)
            ELSE SqrtBetween(n, lo, mid - 1)

\* np.sqrt, rounded down
Sqrt(n) == SqrtBetween(n, 0, IF n < 46340 THEN n ELSE 46340)

\* x / y in IEEE arithmetic, the quotient of two numbers in per mille
Divide(x, y) ==
    IF ~IsNumber(x) \/ ~IsNumber(y) THEN NaN
    ELSE IF y.value # 0 THEN Number((x.value * 1000) \div y.value)
    ELSE IF x.value > 0 THEN PlusInf
    ELSE IF x.value < 0 THEN MinusInf
    ELSE NaN

\* weights /= np.sum(weights)
NormalizedWeights(draw) == [nums |-> draw, den |-> SumSeq(draw)]

\* calculate_portfolio_metrics: p_return
p_return(df, weights) ==
    IF weights.den = 0 \/ Len(df) = 0 THEN NaN
    ELSE Number(SumSeq([a \in DOMAIN weights.nums |->
                          weights.nums[a] * expected_returns_annualized(df, a)])
                  \div weights.den)

\* calculate_portfolio_metrics: p_volatility; the covariance of a single
\* month is NaN
p_volatility(df, weights) ==
    IF weights.den = 0 \/ Len(df) < 2 THEN NaN
    ELSE LET variance ==
                 SumSeq([i \in DOMAIN weights.nums |->
                    SumSeq([j \in DOMAIN weights.nums |->
                       weights.nums[i] * weights.nums[j]
                          * covariance_matrix_annualized(df, i, j)])])
         IN Number(Sqrt((variance * 10000)
                          \div (weights.den * weights.den
                                  * Len(df) * Len(df) * (Len(df) - 1))))

\* results[2,i] = p_return / p_volatility
SharpeRatio(ret, vol) == Divide(ret, vol)

\* row i of portfolios_df
PortfolioRow(df, draw) ==
    LET weights == NormalizedWeights(draw)
        ret == p_return(df, weights)
        vol == p_volatility(df, weights)
    IN [ Volatility |-> vol, Return |-> ret,
         Sharpe_Ratio |-> SharpeRatio(ret, vol), weights |-> weights ]

\* row i comes before row j in sort_values(by=['Volatility', 'Return'],
\* ascending=[True, False]): NaN last, equal keys in index order
Precedes(rows, i, j) ==
    LET vi == rows[i].Volatility
        vj == rows[j].Volatility
    IN IF IsNumber(vi) /\ IsNumber(vj)
       THEN \/ vi.value < vj.value
            \/ /\ vi.value = vj.value
               /\ \/ rows[i].Return.value > rows[j].Return.value
                  \/ rows[i].Return.value = rows[j].Return.value /\ i < j
       ELSE IF IsNumber(vi) THEN TRUE
       ELSE IF IsNumber(vj) THEN FALSE
       ELSE i < j

\* portfolios_df_sorted
portfolios_df_sorted(rows) ==
    [ p \in 1..Len(rows) |->
        rows[CHOOSE i \in 1..Len(rows) :
                Cardinality({ j \in 1..Len(rows) : Precedes(rows, j, i) }) = p - 1] ]

\* the volatilities min() and max() range over
Volatilities(rows) ==
    { rows[i].Volatility.value : i \in { k \in 1..Len(rows) : IsNumber(rows[k].Volatility) } }

\* the bin i of 0..98 with volatility_bins[i] <= v < volatility_bins[i+1],
\* edges lo + i * (hi - lo) / 99; none for v = hi, the last edge
BinOf(v, lo, hi) ==
    IF v >= hi THEN -1 ELSE ((NumBinEdges - 1) * (v - lo)) \div (hi - lo)

\* a bin that includes its upper edge
InClosedBin(v, i, lo, hi) ==
    /\ (NumBinEdges - 1) * v >= (NumBinEdges - 1) * lo + i * (hi - lo)
    /\ (NumBinEdges - 1) * v <= (NumBinEdges - 1) * lo + (i + 1) * (hi - lo)

\* (Volatility >= bin_start) & (Volatility < bin_end) for bin i, with
\* bin_start = lo + i * (hi - lo) / 99 and bin_end = lo + (i + 1) * (hi - lo) / 99
InBin(v, i, lo, hi) ==
    /\ (NumBinEdges - 1) * v >= (NumBinEdges - 1) * lo + i * (hi - lo)
    /\ (NumBinEdges - 1) * v < (NumBinEdges - 1) * lo + (i + 1) * (hi - lo)

\* bin_portfolios of bin i, as positions of portfolios_df_sorted
bin_portfolios(sorted, i, lo, hi) ==
    { p \in 1..Len(sorted) :
         /\ IsNumber(sorted[p].Volatility)
         /\ InBin(sorted[p].Volatility.value, i, lo, hi) }

\* the row of the least return of the bin
LeastReturnPortfolio(sorted, members) ==
    LET worst == MinOf({ sorted[p].Return.value : p \in members })
    IN sorted[MinOf({ p \in members : sorted[p].Return.value = worst })]

\* bin_portfolios.loc[bin_portfolios['Return'].idxmax()]
efficient_portfolio(sorted, members) ==
    LET best == MaxOf({ sorted[p].Return.value : p \in members })
    IN sorted[MinOf({ p \in members : sorted[p].Return.value = best })]

\* the loop over the bins: one row for every bin that is not empty, in the
\* order of the bins
BinLoop(sorted, lo, hi) ==
    LET occupied == { BinOf(sorted[p].Volatility.value, lo, hi) :
                        p \in { q \in 1..Len(sorted) : IsNumber(sorted[q].Volatility) } }
                       \ {-1}
    IN [ n \in 1..Cardinality(occupied) |->
           LET i == CHOOSE b \in occupied :
                       Cardinality({ c \in occupied : c < b }) = n - 1
           IN efficient_portfolio(sorted, bin_portfolios(sorted, i, lo, hi)) ]

\* the frontier the bin loop leaves; without a volatility that is a number
\* the edges are NaN and every bin is empty
BinFrontier(rows) ==
    IF Volatilities(rows) = {} THEN <<>>
    ELSE BinLoop(portfolios_df_sorted(rows),
                 MinOf(Volatilities(rows)), MaxOf(Volatilities(rows)))

\* drop_duplicates(subset=['Volatility']): the first row of each volatility
RECURSIVE DropDuplicates(_)
DropDuplicates(frontier) ==
    IF frontier = <<>> THEN <<>>
    ELSE LET kept == DropDuplicates(SubSeq(frontier, 1, Len(frontier) - 1))
             row == frontier[Len(frontier)]
         IN IF \E k \in 1..Len(kept) : kept[k].Volatility = row.Volatility
            THEN kept ELSE Append(kept, row)

\* the rows by descending volatility
SortDescending(frontier) ==
    [ p \in 1..Len(frontier) |->
        frontier[CHOOSE i \in 1..Len(frontier) :
           Cardinality({ j \in 1..Len(frontier) :
              \/ frontier[j].Volatility.value > frontier[i].Volatility.value
              \/ /\ frontier[j].Volatility.value = frontier[i].Volatility.value
                 /\ j < i }) = p - 1] ]

\* sort_values(by='Volatility')
SortByVolatility(frontier) ==
    [ p \in 1..Len(frontier) |->
        frontier[CHOOSE i \in 1..Len(frontier) :
           Cardinality({ j \in 1..Len(frontier) :
              \/ frontier[j].Volatility.value < frontier[i].Volatility.value
              \/ /\ frontier[j].Volatility.value = frontier[i].Volatility.value
                 /\ j < i }) = p - 1] ]

\* lines 57-72: the frontier of the samples
ApproximateEfficientFrontier(rows) ==
    SortByVolatility(DropDuplicates(BinFrontier(rows)))

FrontierIdle ==
    /\ mvo_returns_df = <<>>
    /\ portfolios_df = <<>>
    /\ efficient_frontier = <<>>
    /\ sharpe_zero_divisions = 0

FrontierInit ==
    /\ pc = "portfolio_loop"
    /\ mvo_returns_df \in MvoReturnMatrices
    /\ portfolios_df = <<>>
    /\ efficient_frontier = <<>>
    /\ sharpe_zero_divisions = 0

\* one iteration of for i in range(num_portfolios)
GeneratePortfolio ==
    /\ pc = "portfolio_loop"
    /\ UNCHANGED notFrontier
    /\ Len(portfolios_df) < NUM_RANDOM_PORTFOLIOS_MVO
    /\ \E draw \in RandomDraws(mvo_returns_df) :
          LET row == PortfolioRow(mvo_returns_df, draw)
          IN /\ portfolios_df' = Append(portfolios_df, row)
             /\ sharpe_zero_divisions' =
                   IF IsNumber(row.Volatility) /\ row.Volatility.value = 0
                      /\ row.Sharpe_Ratio.kind # "number"
                   THEN sharpe_zero_divisions + 1
                   ELSE sharpe_zero_divisions
    /\ UNCHANGED <<pc, mvo_returns_df, efficient_frontier>>

\* the loop is over: the frontier is extracted and returned
ReturnFrontier ==
    /\ pc = "portfolio_loop"
    /\ UNCHANGED notFrontier
    /\ Len(portfolios_df) >= NUM_RANDOM_PORTFOLIOS_MVO
    /\ efficient_frontier' = ApproximateEfficientFrontier(portfolios_df)
    /\ pc' = "frontier_returned"
    /\ UNCHANGED <<mvo_returns_df, portfolios_df, sharpe_zero_divisions>>

FrontierNext ==
    \/ GeneratePortfolio
    \/ ReturnFrontier

(***************************************************************************)
(* define_and_select_model_portfolios_by_term: the loop over the terms of  *)
(* all_term_results, up to the call that fetches the term's target         *)
(* volatilities.                                                           *)
(***************************************************************************)
\* the most terms of an argument of the model
MaxTerms == 2

\* term names of the model: two configured ones and one without tables
TermInputNames == {"5_year", "21_plus_year", "30_year"}

\* all_term_results[term_name]['efficient_frontier_df'].empty, per term
TermEntries == [term_name : TermInputNames, frontier_empty : BOOLEAN]

\* the arguments: dictionaries, so no term name occurs twice
AllTermResults ==
    { r \in UNION { [1..n -> TermEntries] : n \in 0..MaxTerms } :
        \A i \in DOMAIN r : \A j \in DOMAIN r :
            i # j => r[i].term_name # r[j].term_name }

\* load_simulated_paths: a file that is not found is reported and left out
\* of the dictionary returned
load_simulated_paths(files) == [a \in (AssetIdx \cap files) |-> "array"]

\* get_target_volatilities_for_risk_level_by_term: the argument's .items()
\* is called first; a str has none, and iterating a table of bands yields
\* its integer keys, which cannot be unpacked into a pair
get_target_volatilities_for_risk_level_by_term(risk_band_definitions_by_term) ==
    IF risk_band_definitions_by_term.type = "str"
    THEN [raised |-> "AttributeError", value |-> "None"]
    ELSE IF risk_band_definitions_by_term.entries # {}
         THEN [raised |-> "TypeError", value |-> "None"]
         ELSE [raised |-> "none", value |-> "None"]

TermsIdle ==
    /\ all_term_results = <<>>
    /\ simulated_path_files = {}
    /\ term_idx = 0
    /\ all_term_model_portfolios = <<>>
    /\ terms_printed = {}

TermsInit ==
    /\ pc = "terms_called"
    /\ all_term_results \in AllTermResults
    /\ simulated_path_files \in SUBSET AssetIdx
    /\ term_idx = 0
    /\ all_term_model_portfolios = <<>>
    /\ terms_printed = {}

\* if not all_term_results: return {}
NoTermResults ==
    /\ pc = "terms_called"
    /\ UNCHANGED notTerms
    /\ all_term_results = <<>>
    /\ terms_printed' = terms_printed \cup
          {<<"Error: No portfolio analysis results provided", "all">>}
    /\ pc' = "returned_no_results"
    /\ UNCHANGED <<all_term_results, simulated_path_files, term_idx,
                   all_term_model_portfolios>>

\* the loop over all_term_results.items() is entered
EnterTermLoop ==
    /\ pc = "terms_called"
    /\ UNCHANGED notTerms
    /\ all_term_results # <<>>
    /\ term_idx' = 1
    /\ pc' = "term_loop"
    /\ UNCHANGED <<all_term_results, simulated_path_files,
                   all_term_model_portfolios, terms_printed>>

\* if efficient_frontier_df.empty: continue
SkipEmptyFrontier ==
    /\ pc = "term_loop"
    /\ UNCHANGED notTerms
    /\ term_idx <= Len(all_term_results)
    /\ all_term_results[term_idx].frontier_empty
    /\ terms_printed' = terms_printed \cup
          {<<"Skipping: Efficient Frontier DataFrame is empty",
             all_term_results[term_idx].term_name>>}
    /\ term_idx' = term_idx + 1
    /\ UNCHANGED <<pc, all_term_results, simulated_path_files,
                   all_term_model_portfolios>>

\* if not loaded_sim_paths: continue
SkipPathsNotLoaded ==
    /\ pc = "term_loop"
    /\ UNCHANGED notTerms
    /\ term_idx <= Len(all_term_results)
    /\ ~all_term_results[term_idx].frontier_empty
    /\ DOMAIN load_simulated_paths(simulated_path_files) = {}
    /\ terms_printed' = terms_printed \cup
          {<<"Error: Simulated paths not loaded",
             all_term_results[term_idx].term_name>>}
    /\ term_idx' = term_idx + 1
    /\ UNCHANGED <<pc, all_term_results, simulated_path_files,
                   all_term_model_portfolios>>

\* loaded_sim_paths[asset_names[0]] when the first asset's file was not found
FirstAssetNotLoaded ==
    /\ pc = "term_loop"
    /\ UNCHANGED notTerms
    /\ term_idx <= Len(all_term_results)
    /\ ~all_term_results[term_idx].frontier_empty
    /\ DOMAIN load_simulated_paths(simulated_path_files) # {}
    /\ 1 \notin DOMAIN load_simulated_paths(simulated_path_files)
    /\ pc' = "raised_KeyError"
    /\ UNCHANGED termsVars

\* term_target_vols = get_target_volatilities_for_risk_level_by_term(term_name)
FetchTargetVolatilities ==
    /\ pc = "term_loop"
    /\ UNCHANGED notTerms
    /\ term_idx <= Len(all_term_results)
    /\ ~all_term_results[term_idx].frontier_empty
    /\ 1 \in DOMAIN load_simulated_paths(simulated_path_files)
    /\ LET term_target_vols_fetched ==
               get_target_volatilities_for_risk_level_by_term(
                   [type |-> "str", entries |-> {}])
       IN pc' = "raised_" \o term_target_vols_fetched.raised
    /\ UNCHANGED termsVars

\* the loop is over: return all_term_model_portfolios
ReturnAllTerms ==
    /\ pc = "term_loop"
    /\ UNCHANGED notTerms
    /\ term_idx > Len(all_term_results)
    /\ pc' = "terms_returned"
    /\ UNCHANGED termsVars

TermsNext ==
    \/ NoTermResults
    \/ EnterTermLoop
    \/ SkipEmptyFrontier
    \/ SkipPathsNotLoaded
    \/ FirstAssetNotLoaded
    \/ FetchTargetVolatilities
    \/ ReturnAllTerms

(***************************************************************************)
(* define_and_select_model_portfolios_by_term: the two levels assigned to  *)
(* a selected portfolio from the term's bands.                             *)
(***************************************************************************)
\* volatilities at, just below and just above the edges of the term's bands
VolatilityInputs(term) ==
    {0} \cup UNION { { b.vol_min - 1, b.vol_min, b.vol_min + 1,
                       b.vol_max - 1, b.vol_max, b.vol_max + 1 } :
                     b \in { RISK_BAND_DEFINITIONS_BY_TERM[term][r] :
                               r \in DOMAIN RISK_BAND_DEFINITIONS_BY_TERM[term] } }

\* drawdowns at, just below and just above the dd_max of the term's bands
DrawdownInputs(term) ==
    {0} \cup UNION { { b.dd_max - 1, b.dd_max, b.dd_max + 1 } :
                     b \in { RISK_BAND_DEFINITIONS_BY_TERM[term][r] :
                               r \in DOMAIN RISK_BAND_DEFINITIONS_BY_TERM[term] } }

BandsIdle ==
    /\ band_term = "none"
    /\ band_actual_volatility = 0
    /\ band_actual_max_drawdown = 0
    /\ band_vol_risk_level = 0
    /\ band_dd_risk_level = 0

\* vol_risk_level = 0; actual_volatility = selected_portfolio_mvo['Volatility']
BandsInit ==
    /\ pc = "assign_vol_level"
    /\ band_term \in TermNames
    /\ band_actual_volatility \in VolatilityInputs(band_term)
    /\ band_actual_max_drawdown \in DrawdownInputs(band_term)
    /\ band_vol_risk_level = 0
    /\ band_dd_risk_level = 0

\* the band loop of the volatility and its two fallbacks
AssignVolRiskLevel ==
    /\ pc = "assign_vol_level"
    /\ UNCHANGED notBands
    /\ band_vol_risk_level' =
          VolRiskLevel(RISK_BAND_DEFINITIONS_BY_TERM[band_term], band_actual_volatility)
    /\ pc' = "assign_dd_level"
    /\ UNCHANGED <<band_term, band_actual_volatility, band_actual_max_drawdown, band_dd_risk_level>>

\* the band loop of the drawdown and its fallback
AssignDDRiskLevel ==
    /\ pc = "assign_dd_level"
    /\ UNCHANGED notBands
    /\ band_dd_risk_level' =
          DDRiskLevel(RISK_BAND_DEFINITIONS_BY_TERM[band_term], band_actual_max_drawdown)
    /\ pc' = "levels_assigned"
    /\ UNCHANGED <<band_term, band_actual_volatility, band_actual_max_drawdown, band_vol_risk_level>>

BandsNext ==
    \/ AssignVolRiskLevel
    \/ AssignDDRiskLevel

(***************************************************************************)
(* Specifications, one per function.                                       *)
(***************************************************************************)
Init == ClientInit /\ BootIdle /\ DrawdownIdle /\ ClassifyIdle /\ FrontierIdle /\ TermsIdle /\ BandsIdle
Next == ClientNext
Spec == Init /\ [][Next]_vars

InitBoot == BootInit /\ ClientIdle /\ DrawdownIdle /\ ClassifyIdle /\ FrontierIdle /\ TermsIdle /\ BandsIdle
NextBoot == BootNext
SpecBoot == InitBoot /\ [][NextBoot]_vars
\* the function runs to its end: no step of it waits for anything
SpecBootFair == SpecBoot /\ WF_vars(NextBoot)

InitDrawdown == DrawdownInit /\ ClientIdle /\ BootIdle /\ ClassifyIdle /\ FrontierIdle /\ TermsIdle /\ BandsIdle
NextDrawdown == DrawdownNext
SpecDrawdown == InitDrawdown /\ [][NextDrawdown]_vars

InitClassify == ClassifyInit /\ ClientIdle /\ BootIdle /\ DrawdownIdle /\ FrontierIdle /\ TermsIdle /\ BandsIdle
NextClassify == ClassifyNext
SpecClassify == InitClassify /\ [][NextClassify]_vars

InitFrontier == FrontierInit /\ ClientIdle /\ BootIdle /\ DrawdownIdle /\ ClassifyIdle /\ TermsIdle /\ BandsIdle
NextFrontier == FrontierNext
SpecFrontier == InitFrontier /\ [][NextFrontier]_vars

InitTerms == TermsInit /\ ClientIdle /\ BootIdle /\ DrawdownIdle /\ ClassifyIdle /\ FrontierIdle /\ BandsIdle
NextTerms == TermsNext
SpecTerms == InitTerms /\ [][NextTerms]_vars

InitBands == BandsInit /\ ClientIdle /\ BootIdle /\ DrawdownIdle /\ ClassifyIdle
                 /\ FrontierIdle /\ TermsIdle
NextBands == BandsNext
SpecBands == InitBands /\ [][NextBands]_vars

(***************************************************************************)
(* Claims about run_client_retirement_simulation                           *)
(***************************************************************************)
\* entry 1 of a history is the initial balance; entries 2.. are recorded after a
\* month's cash flow
RuinAbsorbingIn(h) ==
    \A i \in 2..Len(h) : h[i] = 0 => \A j \in i..Len(h) : h[j] = 0

HasRuin(h) == \E i \in 2..Len(h) : h[i] = 0

\* C1: ruin is absorbing.  In every run, once a balance recorded after a month's
\* cash flow is 0, every later recorded balance of that run is 0, and the
\* terminal balance of a run with such a 0 is 0.
C1_RuinAbsorbing ==
    /\ RuinAbsorbingIn(portfolio_history_this_sim)
    /\ \A s \in 1..Len(all_portfolio_histories) :
          /\ RuinAbsorbingIn(all_portfolio_histories[s])
          /\ HasRuin(all_portfolio_histories[s]) => final_balances[s] = 0

\* a finished run that survived at least one month and was then ruined
C1_Witness ==
    \E s \in 1..Len(all_portfolio_histories) :
        LET h == all_portfolio_histories[s]
        IN Len(h) >= 3 /\ h[2] > 0 /\ Last(h) = 0 /\ final_balances[s] = 0

\* the 0-based month the last recorded balance belongs to
LastRecordedMonth == Len(portfolio_history_this_sim) - 2

C2_PhaseInv ==
    /\ phase \in {"None", "Accumulating", "Decumulating", "Ruined"}
    /\ phase = "None" <=> Len(portfolio_history_this_sim) <= 1
    /\ phase = "Accumulating" => LastRecordedMonth < pre_retirement_months
    /\ phase = "Decumulating" => LastRecordedMonth >= pre_retirement_months
    /\ phase = "Ruined" <=>
          (Len(portfolio_history_this_sim) >= 2 /\ Last(portfolio_history_this_sim) = 0)
    /\ phase \in {"Accumulating", "Decumulating"} => current_balance > 0

C2_PhaseStep ==
    /\ phase = "Ruined" =>
          Len(portfolio_history_this_sim') <= Len(portfolio_history_this_sim)
    /\ phase = "Decumulating" => phase' # "Accumulating"
    /\ (pc = "month_loop"
          /\ Len(portfolio_history_this_sim') > Len(portfolio_history_this_sim)) =>
          \/ phase' = "Ruined"
          \/ phase' = IF LastRecordedMonth + 1 < pre_retirement_months
                      THEN "Accumulating" ELSE "Decumulating"

\* C2: each run follows the machine {Accumulating, Decumulating, Ruined}: a
\* recorded month m is an accumulation month exactly when m < pre_retirement_months,
\* the phase never goes back from Decumulating to Accumulating, the run is Ruined
\* exactly when the balance after a month's cash flow was <= 0 (recorded as 0),
\* and no month is simulated from Ruined.
C2_StateMachine == []C2_PhaseInv /\ [][C2_PhaseStep]_vars

\* a run that accumulated, then decumulated, then was ruined
C2_Witness ==
    /\ phase = "Ruined"
    /\ pre_retirement_months >= 1
    /\ LastRecordedMonth > pre_retirement_months

\* a client who retires now with 1000, contributes nothing and withdraws 1000 a
\* month (12000 a year of 12 months), on paths whose returns are all 0
C11_Scenario ==
    /\ pc \in {"run_start", "month_loop", "run_end", "returned"}
    /\ client.initial_balance = 1000
    /\ client.annual_contribution = 0
    /\ client.annual_withdrawal_at_retirement = 1000 * NUM_MONTHS_IN_YEAR
    /\ client.retirement_age = client.current_age
    /\ \A a \in AssetIdx : \A s \in 1..NUM_SIMULATIONS :
          \A m \in 1..PLANNING_HORIZON_MONTHS : loaded_sim_paths[a][s][m] = 0

\* C11: in that scenario every run is ruined at the first simulated month: its
\* history is [1000, 0], no further month is simulated and the terminal balance
\* is 0.
C11_ZeroReturnRuin ==
    C11_Scenario =>
        /\ \A s \in 1..Len(all_portfolio_histories) :
              /\ all_portfolio_histories[s] = <<1000, 0>>
              /\ final_balances[s] = 0
        /\ pc = "month_loop" => /\ month_in_horizon = 0
                                /\ portfolio_history_this_sim = <<1000>>
        /\ pc = "run_end" => /\ portfolio_history_this_sim = <<1000, 0>>
                             /\ current_balance = 0

\* the scenario has been simulated to the end: every run has returned its result
C11_Witness ==
    /\ C11_Scenario
    /\ pc = "returned"
    /\ Len(all_portfolio_histories) = NUM_SIMULATIONS
    /\ total_planning_months >= 2

\* the months a history records: its entries after the initial balance
SimulatedMonths(h) == Len(h) - 1

\* the months a run may simulate
MonthLimit ==
    IF total_planning_months < PLANNING_HORIZON_MONTHS
    THEN total_planning_months ELSE PLANNING_HORIZON_MONTHS

\* C12: no month beyond the simulated horizon H is simulated: no read of a
\* simulated path falls outside its H months, and every run simulates at most
\* min(pre_retirement_months + post_retirement_months, H) months.
C12_NoMonthBeyondHorizon ==
    /\ pc # "raised_IndexError"
    /\ pc = "month_loop" => /\ month_in_horizon <= MonthLimit
                            /\ SimulatedMonths(portfolio_history_this_sim) <= MonthLimit
    /\ pc = "run_end" => SimulatedMonths(portfolio_history_this_sim) <= MonthLimit
    /\ \A s \in 1..Len(all_portfolio_histories) :
          SimulatedMonths(all_portfolio_histories[s]) <= MonthLimit

\* a finished run of a plan longer than the simulated horizon that simulated
\* every one of the H months
C12_Witness ==
    /\ total_planning_months > PLANNING_HORIZON_MONTHS
    /\ \E s \in 1..Len(all_portfolio_histories) :
          SimulatedMonths(all_portfolio_histories[s]) = PLANNING_HORIZON_MONTHS

\* the messages every call that simulates prints
RoutineMessages == {"--- Retirement Simulation Complete ---"}

\* C13: when the total planning horizon exceeds the simulated horizon H, the
\* truncation is reported to the caller: the outcome of the call carries a
\* warning besides the balances, the histories and the routine messages.
C13_TruncationReported ==
    (pc = "returned" /\ total_planning_months > PLANNING_HORIZON_MONTHS) =>
        client_printed \ RoutineMessages # {}

\* the weights of the requested (term, risk level) cannot be loaded
WeightsLoadFails ==
    \/ ~model_portfolios_csv.exists
    \/ client.selected_risk_level \notin DOMAIN model_portfolios_csv.rows

\* C20: when the weights cannot be loaded no run is simulated, with zero or
\* default weights or otherwise, and the call ends with an explicit error: the
\* error message and the empty result [], [].
C20_LoadFailureSurfaced ==
    (pc \in {"load_weights", "run_start", "month_loop", "run_end", "returned",
             "returned_no_weights", "raised_IndexError"} /\ WeightsLoadFails) =>
        /\ pc \in {"load_weights", "returned_no_weights"}
        /\ final_balances = <<>>
        /\ all_portfolio_histories = <<>>
        /\ portfolio_history_this_sim = <<>>
        /\ pc = "returned_no_weights" =>
              "Error: Could not load valid portfolio weights" \in client_printed

\* the call has returned after the file was found without the requested level
C20_Witness ==
    /\ pc = "returned_no_weights"
    /\ model_portfolios_csv.exists
    /\ client.selected_risk_level \notin DOMAIN model_portfolios_csv.rows

\* one month of a run computed from the client profile, the weights and the
\* returns of that month of the run's own path
MonthOfRun(before, s, m) ==
    LET contribution == IF m % NUM_MONTHS_IN_YEAR = 0 /\ m > 0
                        THEN (before.contribution * (100 + client.average_annual_inflation))
                                \div 100
                        ELSE before.contribution
        withdrawal == IF m % NUM_MONTHS_IN_YEAR = 0 /\ m > 0
                      THEN (before.withdrawal * (100 + client.average_annual_inflation))
                              \div 100
                      ELSE before.withdrawal
        unit == 100 * SumSeq(portfolio_weights)
        return == SumSeq([a \in AssetIdx |->
                            loaded_sim_paths[a][s][m + 1] * portfolio_weights[a]])
        grown == (before.balance * (unit + return)) \div unit
        balance == IF m < pre_retirement_months
                   THEN grown + (contribution \div NUM_MONTHS_IN_YEAR)
                   ELSE grown - (withdrawal \div NUM_MONTHS_IN_YEAR)
    IN IF before.stopped THEN before
       ELSE [ balance |-> IF balance <= 0 THEN 0 ELSE balance,
              contribution |-> contribution,
              withdrawal |-> withdrawal,
              history |-> Append(before.history, IF balance <= 0 THEN 0 ELSE balance),
              stopped |-> balance <= 0 ]

\* run s (1-based) after its first n months, computed from nothing but the
\* client profile, the weights and path s
RECURSIVE RunAlone(_, _)
RunAlone(s, n) ==
    IF n = 0
    THEN [ balance |-> client.initial_balance,
           contribution |-> client.annual_contribution,
           withdrawal |-> client.annual_withdrawal_at_retirement,
           history |-> <<client.initial_balance>>,
           stopped |-> FALSE ]
    ELSE MonthOfRun(RunAlone(s, n - 1), s, n - 1)

\* C18: the runs are independent.  The history and the terminal balance of run
\* s are those of run s simulated alone from the client profile, the weights
\* and path s, whatever the runs before it did; the balance and the inflated
\* annual amounts are set anew when a run starts.
C18_RunsIndependent ==
    /\ \A s \in 1..Len(all_portfolio_histories) :
          /\ all_portfolio_histories[s] = RunAlone(s, MonthLimit).history
          /\ final_balances[s] = RunAlone(s, MonthLimit).balance
    /\ pc = "month_loop" =>
          LET alone == RunAlone(s_idx + 1, month_in_horizon)
          IN /\ portfolio_history_this_sim = alone.history
             /\ current_balance = alone.balance
             /\ current_annual_contribution_inflated = alone.contribution
             /\ current_annual_withdrawal_inflated = alone.withdrawal

\* two finished runs with different histories, the first of which left inflated
\* annual amounts behind
C18_Witness ==
    /\ Len(all_portfolio_histories) >= 2
    /\ all_portfolio_histories[1] # all_portfolio_histories[2]
    /\ Len(all_portfolio_histories[1]) > NUM_MONTHS_IN_YEAR + 1
    /\ Len(all_portfolio_histories[2]) > 2
    /\ client.average_annual_inflation > 0
    /\ client.annual_contribution > 0

(***************************************************************************)
(* Claims about run_historical_bootstrapping                               *)
(***************************************************************************)
\* every (simulation, month) cell written so far: finished simulations and the
\* one in progress.  Cell(a, c) is asset a's value in cell c.
BootCells ==
    { <<s, m>> : s \in 1..Len(simulated_asset_paths[1]), m \in 1..PLANNING_HORIZON_MONTHS }
        \cup { <<0, m>> : m \in 1..(IF pc = "boot_month_loop"
                                     THEN Len(current_sim_returns_for_assets[1]) ELSE 0) }

Cell(a, c) ==
    IF c[1] = 0 THEN current_sim_returns_for_assets[a][c[2]]
                ELSE simulated_asset_paths[a][c[1]][c[2]]

BootShapesAgree ==
    /\ \A a \in AssetIdx :
          /\ Len(current_sim_returns_for_assets[a]) = Len(current_sim_returns_for_assets[1])
          /\ Len(simulated_asset_paths[a]) = Len(simulated_asset_paths[1])
          /\ \A s \in 1..Len(simulated_asset_paths[a]) :
                Len(simulated_asset_paths[a][s]) = PLANNING_HORIZON_MONTHS

\* C5: bootstrap closure.  Every value stored in an asset's path is that asset's
\* return in some row of the ReturnMatrix; hence an asset whose return is the
\* same in every row has that return in every cell.
C5_BootstrapClosure ==
    /\ BootShapesAgree
    /\ \A a \in AssetIdx : \A c \in BootCells :
          \E r \in 1..num_historical_months : Cell(a, c) = combined_returns_df[r][a]
    /\ \A a \in AssetIdx :
          (\A r \in 1..num_historical_months :
                combined_returns_df[r][a] = combined_returns_df[1][a])
          => \A c \in BootCells : Cell(a, c) = combined_returns_df[1][a]

\* all paths are saved, from a matrix whose two assets never share a value
C5_Witness ==
    /\ pc = "boot_saved"
    /\ num_historical_months = 2
    /\ \A r1, r2 \in 1..num_historical_months :
          combined_returns_df[r1][1] # combined_returns_df[r2][2]
    /\ \E c \in BootCells : Cell(1, c) # Cell(1, <<1, 1>>)

\* C6: cross-asset consistency.  Every cell was filled from one historical row:
\* there is a row r whose return of every asset is the asset's value in the cell;
\* and exactly one random index was drawn per written cell.
C6_CrossAssetConsistent ==
    /\ BootShapesAgree
    /\ \A c \in BootCells :
          \E r \in 1..num_historical_months :
              \A a \in AssetIdx : Cell(a, c) = combined_returns_df[r][a]
    /\ num_draws = Cardinality(BootCells)

\* all paths are saved from a matrix in which a mix of two rows is no row
C6_Witness ==
    /\ pc = "boot_saved"
    /\ num_historical_months = 2
    /\ combined_returns_df[1][1] # combined_returns_df[2][1]
    /\ combined_returns_df[1][2] # combined_returns_df[2][2]
    /\ \E c \in BootCells : Cell(1, c) # Cell(1, <<1, 1>>)

\* every finished simulation has one path of H months per asset, and the saved
\* arrays have S such paths per asset; the only message is the warning
C17_ShapeInv ==
    num_historical_months >= 1 =>
        /\ pc # "boot_returned_no_data"
        /\ \A a \in AssetIdx :
              /\ \A s \in 1..Len(simulated_asset_paths[a]) :
                    Len(simulated_asset_paths[a][s]) = PLANNING_HORIZON_MONTHS
              /\ pc = "boot_saved" => Len(simulated_asset_paths[a]) = NUM_SIMULATIONS
        /\ boot_printed \subseteq
              {"Warning: Number of historical months is less than the planning horizon"}
        /\ (pc # "boot_called" /\ num_historical_months < PLANNING_HORIZON_MONTHS) =>
              boot_printed # {}

\* C17: for a ReturnMatrix of R >= 1 rows run_historical_bootstrapping ends
\* having saved, for every asset, S paths of H months each, also when R < H:
\* the reuse of historical months prints a warning and nothing else changes.
C17_BootstrapShape ==
    /\ []C17_ShapeInv
    /\ (pc = "boot_called" /\ num_historical_months >= 1) ~> (pc = "boot_saved")

\* the arrays have been saved from a ReturnMatrix with fewer rows than the
\* horizon has months
C17_Witness ==
    /\ pc = "boot_saved"
    /\ num_historical_months >= 1
    /\ num_historical_months < PLANNING_HORIZON_MONTHS
    /\ \A a \in AssetIdx : Len(simulated_asset_paths[a]) = NUM_SIMULATIONS

(***************************************************************************)
(* Claims about calculate_max_drawdown                                     *)
(***************************************************************************)
Positive(series) == \A t \in 1..Len(series) : series[t] > 0
Constant(series) == \A t \in 1..Len(series) : series[t] = series[1]
StrictlyIncreasing(series) == \A t \in 1..(Len(series) - 1) : series[t] < series[t + 1]
DropsBelowEarlier(series) ==
    \E t1, t2 \in 1..Len(series) : t1 < t2 /\ series[t2] < series[t1]

\* C10: on a positive series calculate_max_drawdown returns the least value over
\* time of value / running peak - 1 (the running peak being the greatest value up
\* to that time); that is exactly 0 for a constant series and for a strictly
\* increasing one, and negative when some value is below an earlier value.
C10_MaxDrawdown ==
    (pc = "drawdown_returned" /\ Positive(value_series)) =>
        /\ IsNumber(max_drawdown)
        /\ \A t \in 1..Len(value_series) :
              \A p \in 1..t :
                 (\A i \in 1..t : value_series[i] <= value_series[p])
                 => max_drawdown.value
                       <= ((value_series[t] * 1000) \div value_series[p]) - 1000
        /\ \E t \in 1..Len(value_series) : \E p \in 1..t :
              max_drawdown.value = ((value_series[t] * 1000) \div value_series[p]) - 1000
        /\ Constant(value_series) => max_drawdown.value = 0
        /\ StrictlyIncreasing(value_series) => max_drawdown.value = 0
        /\ DropsBelowEarlier(value_series) => max_drawdown.value < 0

\* a strictly increasing series of more than one value has been evaluated
C10_Witness ==
    /\ pc = "drawdown_returned"
    /\ Positive(value_series)
    /\ Len(value_series) >= 3
    /\ StrictlyIncreasing(value_series)
    /\ max_drawdown = Number(0)

(***************************************************************************)
(* Claims about the risk-level loop                                        *)
(***************************************************************************)
Records == { final_model_portfolios_for_term[i] :
               i \in 1..Len(final_model_portfolios_for_term) }

\* C3: highest risk wins.  In every record the final level is the greater of the
\* volatility-derived and the drawdown-derived level, so it is >= both.
C3_HighestRiskWins ==
    \A rec \in Records :
        /\ rec.Final_Assigned_Risk_Level >= rec.Vol_Risk_Level_Assigned
        /\ rec.Final_Assigned_Risk_Level >= rec.DD_Risk_Level_Assigned
        /\ rec.Final_Assigned_Risk_Level
              \in {rec.Vol_Risk_Level_Assigned, rec.DD_Risk_Level_Assigned}

\* a term's table holds a record the drawdown decides and one the volatility decides
C3_Witness ==
    /\ pc = "term_saved"
    /\ \E rec \in Records : rec.DD_Risk_Level_Assigned > rec.Vol_Risk_Level_Assigned
    /\ \E rec \in Records : rec.Vol_Risk_Level_Assigned > rec.DD_Risk_Level_Assigned

TargetOf(rec) == term_target_vols[rec.Target_Risk_Level]

C7_FrontierAscendingDistinct ==
    pc = "frontier_returned" =>
        \A i \in 1..Len(efficient_frontier) : \A j \in 1..Len(efficient_frontier) :
            i < j => /\ IsNumber(efficient_frontier[i].Volatility)
                     /\ IsNumber(efficient_frontier[j].Volatility)
                     /\ efficient_frontier[i].Volatility.value
                           < efficient_frontier[j].Volatility.value

\* a frontier of two points or more has been returned, extracted from samples
\* that were not generated in order of volatility
C7_Witness ==
    /\ pc = "frontier_returned"
    /\ Len(efficient_frontier) >= 2
    /\ \E i \in 1..Len(portfolios_df) : \E j \in 1..Len(portfolios_df) :
          /\ i < j
          /\ IsNumber(portfolios_df[i].Volatility)
          /\ IsNumber(portfolios_df[j].Volatility)
          /\ portfolios_df[i].Volatility.value > portfolios_df[j].Volatility.value

\* a return matrix without rows or with fewer than 2 assets
DegenerateReturnMatrix(df) == Len(df) = 0 \/ num_assets(df) < 2

\* C14: given a return matrix with 0 rows or with fewer than 2 assets, the
\* generator fails: it generates no portfolio sample and returns no frontier.
C14_InsufficientDataError ==
    DegenerateReturnMatrix(mvo_returns_df) =>
        /\ portfolios_df = <<>>
        /\ pc # "frontier_returned"

\* the weights of a sample: one per asset, none negative, summing to 1
ValidWeights(weights) ==
    /\ Len(weights.nums) = num_assets(mvo_returns_df)
    /\ weights.den > 0
    /\ \A a \in DOMAIN weights.nums : weights.nums[a] >= 0
    /\ SumSeq(weights.nums) = weights.den

\* C8: every sample generated has one weight per asset, every weight is
\* non-negative and the weights sum to 1, whatever the random draws were.
C8_WeightsValid ==
    \A i \in 1..Len(portfolios_df) : ValidWeights(portfolios_df[i].weights)

\* C9: a sample of volatility 0 gets its Sharpe ratio without a division by
\* zero being performed (a finite sentinel is stored), and a sample of
\* volatility above 0 gets the finite ratio return / volatility.
C9_SharpeGuarded ==
    /\ sharpe_zero_divisions = 0
    /\ \A i \in 1..Len(portfolios_df) :
          LET row == portfolios_df[i]
          IN IsNumber(row.Volatility) =>
                /\ IsNumber(row.Sharpe_Ratio)
                /\ row.Volatility.value > 0 =>
                      row.Sharpe_Ratio.value
                         = (row.Return.value * 1000) \div row.Volatility.value


\* the simulated paths of some asset of the universe were not loaded
PathsIncomplete == DOMAIN classifier_sim_paths # AssetIdx

TermsEnded ==
    pc \in {"terms_returned", "returned_no_results", "raised_KeyError",
            "raised_AttributeError", "raised_TypeError"}

\* a term with a non-empty frontier, every asset's simulated paths loaded
\* and band and target-volatility tables configured
HealthyTerm(i) ==
    /\ ~all_term_results[i].frontier_empty
    /\ DOMAIN load_simulated_paths(simulated_path_files) = AssetIdx
    /\ all_term_results[i].term_name \in DOMAIN RISK_BAND_DEFINITIONS_BY_TERM
    /\ all_term_results[i].term_name \in DOMAIN TARGET_VOLATILITIES_FOR_RISK_LEVELS_BY_TERM

\* C15: failures are isolated per term: once the function has ended, every
\* term of the input that has a non-empty frontier, loaded paths and
\* configured tables has been processed to completion and has its table in
\* the result, whatever terms were skipped before it.
C15_TermsIsolated ==
    TermsEnded =>
        \A i \in DOMAIN all_term_results :
            HealthyTerm(i) =>
                all_term_results[i].term_name \in DOMAIN all_term_model_portfolios

\* C19: once the function has ended, the table of every such term holds
\* exactly one record for each risk level 1..10 of the term's
\* target-volatility table, addressable by that level.
C19_OneRecordPerRiskLevel ==
    TermsEnded =>
        \A i \in DOMAIN all_term_results :
            HealthyTerm(i) =>
                LET name == all_term_results[i].term_name
                IN /\ name \in DOMAIN all_term_model_portfolios
                   /\ DOMAIN all_term_model_portfolios[name]
                         = DOMAIN TARGET_VOLATILITIES_FOR_RISK_LEVELS_BY_TERM[name]
                   /\ DOMAIN all_term_model_portfolios[name] = 1..10

(***************************************************************************)
(* Claims about the month of a client run                                  *)
(***************************************************************************)
\* a month of the run has been simulated and recorded in this step
MonthRecorded ==
    /\ pc = "month_loop"
    /\ Len(portfolio_history_this_sim') = Len(portfolio_history_this_sim) + 1

\* C21: in every simulated month the balance recorded is obtained from the
\* balance recorded before it by compounding with the month's portfolio
\* return first, then inflating the annual amounts at a year boundary, then
\* adding a twelfth of the contribution (before retirement) or subtracting a
\* twelfth of the withdrawal (after it), then the ruin check.
C21_MonthOrder ==
    [][ MonthRecorded =>
          LET m == month_in_horizon
              previous == Last(portfolio_history_this_sim)
              compounded ==
                  (previous * (100 * SumSeq(portfolio_weights)
                                 + portfolio_monthly_return(s_idx, m)))
                      \div (100 * SumSeq(portfolio_weights))
              cash_flow ==
                  IF m < pre_retirement_months
                  THEN current_annual_contribution_inflated' \div NUM_MONTHS_IN_YEAR
                  ELSE 0 - (current_annual_withdrawal_inflated' \div NUM_MONTHS_IN_YEAR)
              checked == IF compounded + cash_flow <= 0 THEN 0
                         ELSE compounded + cash_flow
          IN /\ previous = current_balance
             /\ Last(portfolio_history_this_sim') = checked
             /\ current_balance' = checked ]_vars

\* a first month in which the order of compounding and cash flow shows: the
\* balance recorded differs from the one the opposite order gives
C21_Witness ==
    /\ pc = "month_loop"
    /\ Len(portfolio_history_this_sim) = 2
    /\ client.annual_contribution > 0
    /\ pre_retirement_months > 0
    /\ portfolio_monthly_return(s_idx, 0) # 0
    /\ portfolio_history_this_sim[2]
          = Compound(portfolio_history_this_sim[1], s_idx, 0)
               + (client.annual_contribution \div NUM_MONTHS_IN_YEAR)
    /\ portfolio_history_this_sim[2]
          # Compound(portfolio_history_this_sim[1]
                       + (client.annual_contribution \div NUM_MONTHS_IN_YEAR), s_idx, 0)

\* x inflated k times by the factor (1 + average_annual_inflation)
RECURSIVE InflatedTimes(_, _)
InflatedTimes(x, k) ==
    IF k = 0 THEN x
    ELSE (InflatedTimes(x, k - 1) * (100 + client.average_annual_inflation)) \div 100

MonthsSimulated(h) ==
    LET ruined == { i \in 2..Len(h) : h[i] = 0 }
    IN IF ruined # {}
       THEN (CHOOSE i \in ruined : \A j \in ruined : i <= j) - 1
       ELSE IF total_planning_months < PLANNING_HORIZON_MONTHS
            THEN total_planning_months
            ELSE PLANNING_HORIZON_MONTHS

\* C27: final_balances and all_portfolio_histories hold one entry per finished
\* run (NUM_SIMULATIONS entries once the function has returned), the final
\* balance of a run is the last entry of its history, and the history starts
\* with initial_balance and has one entry more than the run simulated months.
C27_ResultShape ==
    /\ Len(final_balances) = Len(all_portfolio_histories)
    /\ pc \in {"run_start", "month_loop", "run_end"} => Len(final_balances) = s_idx
    /\ pc = "returned" => Len(final_balances) = NUM_SIMULATIONS
    /\ pc = "month_loop" =>
           Len(portfolio_history_this_sim) = 1 + month_in_horizon
    /\ \A s \in 1..Len(all_portfolio_histories) :
          LET h == all_portfolio_histories[s]
          IN /\ h # <<>>
             /\ h[1] = client.initial_balance
             /\ final_balances[s] = h[Len(h)]
             /\ Len(h) = 1 + MonthsSimulated(h)

\* the function has returned runs of different lengths: one ruined early and
\* one that went on to the end of the plan
C27_Witness ==
    /\ pc = "returned"
    /\ \E s \in 1..NUM_SIMULATIONS : \E t \in 1..NUM_SIMULATIONS :
          /\ Len(all_portfolio_histories[s]) < Len(all_portfolio_histories[t])
          /\ final_balances[s] = 0
          /\ final_balances[t] > 0

\* every balance of a history is at least 0
NonNegativeHistory(h) == \A i \in 1..Len(h) : h[i] >= 0

\* C28: for initial_balance >= 0 every balance recorded in a history and every
\* terminal balance is >= 0, whatever the returns, contributions and
\* withdrawals; and a run that starts from 0 without a contribution is ruined
\* in its first month, in the accumulation phase as well.
C28_BalancesNonNegative ==
    client.initial_balance >= 0 =>
        /\ current_balance >= 0
        /\ NonNegativeHistory(portfolio_history_this_sim)
        /\ \A s \in 1..Len(final_balances) : final_balances[s] >= 0
        /\ \A s \in 1..Len(all_portfolio_histories) :
              /\ NonNegativeHistory(all_portfolio_histories[s])
              /\ (client.initial_balance = 0 /\ client.annual_contribution = 0) =>
                     /\ all_portfolio_histories[s] = <<0, 0>>
                     /\ final_balances[s] = 0

\* a client with some years to retirement, no balance and no contribution:
\* every run was ruined in its first month
C28_Witness ==
    /\ pc = "returned"
    /\ client.initial_balance = 0
    /\ client.annual_contribution = 0
    /\ pre_retirement_months > 0
    /\ \A s \in 1..NUM_SIMULATIONS : all_portfolio_histories[s] = <<0, 0>>

(***************************************************************************)
(* Claims about the levels assigned from the bands                         *)
(***************************************************************************)
\* the bands of the term whose levels are being assigned
BandsOfTerm == RISK_BAND_DEFINITIONS_BY_TERM[band_term]

\* C23: the volatility-derived level is the level of the band with
\* vol_min <= actual volatility < vol_max; it is 10 when the volatility is at
\* or above band 10's vol_min, above band 10's vol_max included, and 1 when
\* the volatility is below every band.
C23_VolLevelFromBands ==
    pc \in {"assign_dd_level", "levels_assigned"} =>
        /\ \A r \in DOMAIN BandsOfTerm :
              (BandsOfTerm[r].vol_min <= band_actual_volatility
                 /\ band_actual_volatility < BandsOfTerm[r].vol_max)
                 => band_vol_risk_level = r
        /\ band_actual_volatility >= BandsOfTerm[10].vol_min
              => band_vol_risk_level = 10
        /\ (\A r \in DOMAIN BandsOfTerm : band_actual_volatility < BandsOfTerm[r].vol_min)
              => band_vol_risk_level = 1

\* a volatility above the highest band has got level 10
C23_Witness ==
    /\ pc = "levels_assigned"
    /\ band_actual_volatility > BandsOfTerm[10].vol_max
    /\ band_vol_risk_level = 10

\* C24: the drawdown-derived level is the highest level whose dd_max is at
\* least the 1st-percentile max drawdown; it is 1 when the drawdown is greater
\* (less negative) than the dd_max of every band.
C24_DDLevelFromBands ==
    pc = "levels_assigned" =>
        /\ (\E r \in DOMAIN BandsOfTerm : band_actual_max_drawdown <= BandsOfTerm[r].dd_max)
              => /\ band_dd_risk_level \in DOMAIN BandsOfTerm
                 /\ band_actual_max_drawdown <= BandsOfTerm[band_dd_risk_level].dd_max
                 /\ \A r \in DOMAIN BandsOfTerm :
                       r > band_dd_risk_level
                          => band_actual_max_drawdown > BandsOfTerm[r].dd_max
        /\ (\A r \in DOMAIN BandsOfTerm : band_actual_max_drawdown > BandsOfTerm[r].dd_max)
              => band_dd_risk_level = 1

\* a drawdown equal to the dd_max of band 5 has got level 5, with the lower
\* bands matching as well
C24_Witness ==
    /\ pc = "levels_assigned"
    /\ band_actual_max_drawdown = BandsOfTerm[5].dd_max
    /\ band_actual_max_drawdown <= BandsOfTerm[1].dd_max
    /\ band_dd_risk_level = 5

(***************************************************************************)
(* Claims about the selection of a term's model portfolios                 *)
(***************************************************************************)
FrontierVolatilities ==
    { efficient_frontier_df[i].Volatility : i \in 1..Len(efficient_frontier_df) }

\* C25: for each risk level the portfolio selected is a point of the frontier
\* whose distance |volatility - target| is least over the whole frontier, and
\* of two points at the same distance the one of lower volatility, which
\* comes first in the frontier, is selected.
C25_NearestNeighbour ==
    \A rec \in Records :
        LET target == term_target_vols[rec.Target_Risk_Level]
        IN /\ rec.Volatility \in FrontierVolatilities
           /\ \A v \in FrontierVolatilities :
                 /\ Abs(rec.Volatility - target) <= Abs(v - target)
                 /\ Abs(rec.Volatility - target) = Abs(v - target)
                       => rec.Volatility <= v

\* a saved table with a record whose target lies midway between two points of
\* the frontier
C25_Witness ==
    /\ pc = "term_saved"
    /\ \E rec \in Records : \E v \in FrontierVolatilities :
          /\ v > rec.Volatility
          /\ Abs(v - term_target_vols[rec.Target_Risk_Level])
                = Abs(rec.Volatility - term_target_vols[rec.Target_Risk_Level])

\* C30: with the config's contiguous, ascending bands the volatility-derived
\* level lies in 1..10 and does not decrease when the volatility grows, and
\* across the risk levels 1..10 of a term neither the volatility selected nor
\* the volatility-derived level decreases.
C30_VolLevelNonDecreasing ==
    /\ \A rec \in Records :
          /\ rec.Vol_Risk_Level_Assigned \in 1..10
          /\ \A v \in VolatilityInputs(term_name) \cup FrontierVolatilities :
                /\ v <= rec.Volatility
                      => VolRiskLevel(term_risk_bands, v) <= rec.Vol_Risk_Level_Assigned
                /\ v >= rec.Volatility
                      => VolRiskLevel(term_risk_bands, v) >= rec.Vol_Risk_Level_Assigned
    /\ \A a \in Records : \A b \in Records :
          a.Target_Risk_Level <= b.Target_Risk_Level
             => /\ a.Volatility <= b.Volatility
                /\ a.Vol_Risk_Level_Assigned <= b.Vol_Risk_Level_Assigned

\* a saved table of ten records whose volatility-derived levels rise twice
\* between risk level 1 and risk level 10
C30_Witness ==
    /\ pc = "term_saved"
    /\ Len(final_model_portfolios_for_term) = 10
    /\ \E i \in 2..9 :
          /\ final_model_portfolios_for_term[1].Vol_Risk_Level_Assigned
                < final_model_portfolios_for_term[i].Vol_Risk_Level_Assigned
          /\ final_model_portfolios_for_term[i].Vol_Risk_Level_Assigned
                < final_model_portfolios_for_term[10].Vol_Risk_Level_Assigned

(***************************************************************************)
(* Claims about the extraction of the frontier from the samples            *)
(***************************************************************************)
\* positions of the samples whose volatility is a number
NumberedSamples == { p \in 1..Len(portfolios_df) : IsNumber(portfolios_df[p].Volatility) }

\* the bins of range(len(volatility_bins) - 1)
Bins == 0..(NumBinEdges - 2)

\* the bins in which a volatility is eligible, for the edges from lo to hi
BinsOfVolatility(v, lo, hi) == { i \in Bins : InBin(v, i, lo, hi) }

\* C26: every point of the frontier returned is one of the samples generated,
\* and for every bin that holds a sample the frontier has exactly one point,
\* a sample of that bin whose return is >= the return of every sample of the
\* bin; bins without a sample contribute no point.
C26_BinMaximal ==
    pc = "frontier_returned" =>
        LET lo == MinOf(Volatilities(portfolios_df))
            hi == MaxOf(Volatilities(portfolios_df))
            bins_of == [ p \in NumberedSamples |->
                           BinsOfVolatility(portfolios_df[p].Volatility.value, lo, hi) ]
        IN /\ \A k \in 1..Len(efficient_frontier) :
                 \E p \in NumberedSamples :
                    /\ efficient_frontier[k] = portfolios_df[p]
                    /\ bins_of[p] # {}
           /\ \A p \in NumberedSamples : \A i \in bins_of[p] :
                 LET points == { k \in 1..Len(efficient_frontier) :
                                   InBin(efficient_frontier[k].Volatility.value, i, lo, hi) }
                 IN /\ Cardinality(points) = 1
                    /\ \A k \in points :
                          efficient_frontier[k].Return.value
                             >= portfolios_df[p].Return.value

\* a frontier was returned for samples of which two share a bin and differ in
\* return
C26_Witness ==
    /\ pc = "frontier_returned"
    /\ efficient_frontier # <<>>
    /\ LET lo == MinOf(Volatilities(portfolios_df))
           hi == MaxOf(Volatilities(portfolios_df))
       IN \E p \in NumberedSamples : \E q \in NumberedSamples :
             /\ portfolios_df[p].Return.value < portfolios_df[q].Return.value
             /\ BinsOfVolatility(portfolios_df[p].Volatility.value, lo, hi) # {}
             /\ BinsOfVolatility(portfolios_df[p].Volatility.value, lo, hi)
                   = BinsOfVolatility(portfolios_df[q].Volatility.value, lo, hi)

\* C29: a sample is eligible in at most one of the 99 half-open bins, and a
\* sample of the greatest volatility observed in none; so no point of the
\* frontier has the greatest volatility, and the frontier is empty when all
\* samples have the same volatility.
C29_HalfOpenBins ==
    (pc = "frontier_returned" /\ NumberedSamples # {}) =>
        LET lo == MinOf(Volatilities(portfolios_df))
            hi == MaxOf(Volatilities(portfolios_df))
        IN /\ \A v \in Volatilities(portfolios_df) :
                 /\ Cardinality(BinsOfVolatility(v, lo, hi)) <= 1
                 /\ v = hi => BinsOfVolatility(v, lo, hi) = {}
           /\ \A k \in 1..Len(efficient_frontier) :
                 efficient_frontier[k].Volatility.value # hi
           /\ lo = hi => efficient_frontier = <<>>

\* all samples have the same volatility and the frontier returned is empty
C29_Witness ==
    /\ pc = "frontier_returned"
    /\ Len(portfolios_df) = NUM_RANDOM_PORTFOLIOS_MVO
    /\ NumberedSamples = 1..Len(portfolios_df)
    /\ Cardinality(Volatilities(portfolios_df)) = 1
    /\ efficient_frontier = <<>>

====
